---- MODULE Spec2Model ----
(***************************************************************************)
(* Model of the rendering layer of swepub (src/renderers.py).              *)
(*                                                                         *)
(* Text is a sequence of one-character strings.  "EMDASH" and "ENDASH"     *)
(* stand for the single characters U+2014 and U+2013.                      *)
(*                                                                         *)
(* The markdown engine (markdown-it-py, preset "commonmark" with the       *)
(* typographer on) is modelled for the fragment of markdown the input      *)
(* sets below are written in: blank lines, ATX and setext headings,        *)
(* thematic breaks, tab-indented code, <hr> HTML blocks, paragraphs;       *)
(* inline: text, <tag> raw HTML, dash replacement, HTML escaping.          *)
(***************************************************************************)
EXTENDS Integers, Sequences, FiniteSets, TLC

(***************************************************************************)
(* Bounds                                                                  *)
(***************************************************************************)
MaxPoemLines == 3
MaxDetailLines == 2
MaxStoryLines == 3
MaxMetaLines == 2
MaxTitleLen == 3
MaxWords == 3
MaxPieceLines == 3
MaxPieces == 2
MaxChapters == 2
MaxSame == 2
MaxTokens == 3
MaxHashes == 7
MaxTabs == 5

(***************************************************************************)
(* Strings as character sequences                                          *)
(***************************************************************************)
NL == "\n"
TAB == "\t"
HASH == "#"

Whitespace == {" ", TAB, NL}

RECURSIVE Flatten(_)
Flatten(ss) ==
    IF ss = <<>> THEN <<>> ELSE Head(ss) \o Flatten(Tail(ss))

Rep(c, n) == [i \in 1..n |-> c]

Drop(s, n) == SubSeq(s, n + 1, Len(s))

StartsWith(s, p) == Len(s) >= Len(p) /\ SubSeq(s, 1, Len(p)) = p

\* p occurs in s at index i
OccursAt(s, p, i) == i >= 1 /\ i + Len(p) - 1 <= Len(s) /\ SubSeq(s, i, i + Len(p) - 1) = p

Contains(s, p) == \E i \in 1..Len(s) : OccursAt(s, p, i)

\* number of characters of the run of characters in cs that starts at index i
RECURSIVE RunFrom(_, _, _)
RunFrom(s, i, cs) ==
    IF i <= Len(s) /\ s[i] \in cs THEN 1 + RunFrom(s, i + 1, cs) ELSE 0

\* str.strip() == "" : the line is empty or only whitespace
IsBlank(line) == \A i \in 1..Len(line) : line[i] \in Whitespace

\* str.lstrip() / str.rstrip() over spaces and tabs
LStrip(s) == Drop(s, RunFrom(s, 1, {" ", TAB}))

RECURSIVE RStrip(_)
RStrip(s) ==
    IF s # <<>> /\ s[Len(s)] \in {" ", TAB} THEN RStrip(SubSeq(s, 1, Len(s) - 1)) ELSE s

\* number of characters from index i up to, not including, the next "\n"
RECURSIVE UntilNL(_, _)
UntilNL(s, i) ==
    IF i <= Len(s) /\ s[i] # NL THEN 1 + UntilNL(s, i + 1) ELSE 0

\* str.splitlines(): split at "\n"; no empty last line after a final "\n"
RECURSIVE SplitLines(_)
SplitLines(text) ==
    IF text = <<>> THEN <<>>
    ELSE LET n == UntilNL(text, 1)
         IN  <<SubSeq(text, 1, n)>> \o SplitLines(Drop(text, n + 1))

\* "\n".join(lines)
RECURSIVE JoinLines(_)
JoinLines(ls) ==
    IF ls = <<>> THEN <<>>
    ELSE IF Len(ls) = 1 THEN ls[1]
    ELSE ls[1] \o <<NL>> \o JoinLines(Tail(ls))

\* str.replace(old, new) for a one-character old
RECURSIVE ReplaceChar(_, _, _)
ReplaceChar(s, old, new) ==
    IF s = <<>> THEN <<>>
    ELSE (IF Head(s) = old THEN new ELSE <<Head(s)>>) \o ReplaceChar(Tail(s), old, new)

\* decimal digit of a small count, as used by f"<h{cnt}>" and f"tab{cnt}"
Digit(n) == CASE n = 0 -> "0" [] n = 1 -> "1" [] n = 2 -> "2" [] n = 3 -> "3"
              [] n = 4 -> "4" [] n = 5 -> "5" [] n = 6 -> "6" [] n = 7 -> "7"
              [] n = 8 -> "8" [] OTHER -> "9"

\* literal markup
LIT_LT == <<"&", "l", "t", ";">>
LIT_GT == <<"&", "g", "t", ";">>
LIT_QUOT == <<"&", "q", "u", "o", "t", ";">>
LIT_AMP == <<"&", "a", "m", "p", ";">>

(***************************************************************************)
(* markdown-it-py: inline rendering                                        *)
(***************************************************************************)
Letters == {"a", "b", "c", "h", "r", "x", "P", "T"}

\* length of the raw HTML tag "<" name spaces "/"? ">" that starts at index i,
\* 0 when there is none (rules_inline/html_inline, common/html_re)
HtmlTagLen(s, i) ==
    IF i <= Len(s) /\ s[i] = "<"
    THEN LET n == RunFrom(s, i + 1, Letters)
             w == RunFrom(s, i + 1 + n, {" ", TAB})
             k == i + 1 + n + w
             e == IF k <= Len(s) /\ s[k] = "/" THEN k + 1 ELSE k
         IN  IF n >= 1 /\ e <= Len(s) /\ s[e] = ">" THEN e - i + 1 ELSE 0
    ELSE 0

\* typographer "replacements": a run of exactly three dashes is an em dash,
\* a run of exactly two an en dash when both sides are spaces/ends or both
\* sides are non-space (rules_core/replacements EM_DASH_RE, EN_DASH_RE);
\* "(c)" in either case is the copyright sign (SCOPED_ABBR_RE)
RECURSIVE Replacements(_, _)
Replacements(t, i) ==
    IF i > Len(t) THEN <<>>
    ELSE IF t[i] = "(" /\ i + 2 <= Len(t) /\ t[i + 1] \in {"c", "C"} /\ t[i + 2] = ")"
    THEN <<"COPYRIGHT_SIGN">> \o Replacements(t, i + 3)
    ELSE IF t[i] = "-"
    THEN LET n == RunFrom(t, i, {"-"})
             atStart == i = 1 \/ t[i - 1] = NL
             atEnd == i + n > Len(t) \/ t[i + n] = NL
             wsBefore == atStart \/ t[i - 1] \in Whitespace
             wsAfter == atEnd \/ t[i + n] \in Whitespace
             nwBefore == atStart \/ t[i - 1] \notin Whitespace
             nwAfter == atEnd \/ t[i + n] \notin Whitespace
             out == IF n = 3 THEN <<"EMDASH">>
                    ELSE IF n = 2 /\ ((wsBefore /\ wsAfter) \/ (nwBefore /\ nwAfter))
                    THEN <<"ENDASH">>
                    ELSE Rep("-", n)
         IN  out \o Replacements(t, i + n)
    ELSE <<t[i]>> \o Replacements(t, i + 1)

\* common/utils escapeHtml
RECURSIVE EscapeHtml(_)
EscapeHtml(t) ==
    IF t = <<>> THEN <<>>
    ELSE (CASE Head(t) = "<" -> LIT_LT
            [] Head(t) = ">" -> LIT_GT
            [] Head(t) = "\"" -> LIT_QUOT
            [] Head(t) = "&" -> LIT_AMP
            [] OTHER -> <<Head(t)>>) \o EscapeHtml(Tail(t))

\* a text token: typographic replacement, then escaping by the renderer
RenderText(t) == EscapeHtml(Replacements(t, 1))

\* MarkdownIt.renderInline: text is collected up to the next raw HTML tag or
\* line break; leading and inner whitespace of the source is kept
RECURSIVE InlineFrom(_, _, _)
InlineFrom(src, i, pending) ==
    IF i > Len(src) THEN RenderText(pending)
    ELSE IF src[i] = NL
    THEN RenderText(RStrip(pending)) \o <<NL>>
             \o InlineFrom(src, i + 1 + RunFrom(src, i + 1, {" ", TAB}), <<>>)
    ELSE LET n == HtmlTagLen(src, i)
         IN  IF n > 0
             THEN RenderText(pending) \o SubSeq(src, i, i + n - 1)
                      \o InlineFrom(src, i + n, <<>>)
             ELSE InlineFrom(src, i + 1, Append(pending, src[i]))

MdRenderInline(src) == InlineFrom(src, 1, <<>>)

(***************************************************************************)
(* markdown-it-py: block rendering                                         *)
(***************************************************************************)
LIT_HR == <<"<", "h", "r", " ", "/", ">">>
LIT_HR_NL == <<"<", "h", "r", " ", "/", ">", NL>>
LIT_P_OPEN == <<"<", "p", ">">>
LIT_P_CLOSE == <<"<", "/", "p", ">", NL>>
LIT_PRE_OPEN == <<"<", "p", "r", "e", ">", "<", "c", "o", "d", "e", ">">>
LIT_PRE_CLOSE == <<"<", "/", "c", "o", "d", "e", ">", "<", "/", "p", "r", "e", ">", NL>>
LIT_WP_P_OPEN == <<"<", "!", "-", "-", " ", "w", "p", ":", "p", "a", "r", "a", "g", "r", "a", "p", "h", " ", "-", "-", ">", NL, "<", "p", ">">>
LIT_WP_P_CLOSE == <<"<", "/", "p", ">", NL, "<", "!", "-", "-", " ", "/", "w", "p", ":", "p", "a", "r", "a", "g", "r", "a", "p", "h", " ", "-", "-", ">", NL, NL>>
LIT_WP_HR == <<"<", "!", "-", "-", " ", "w", "p", ":", "s", "e", "p", "a", "r", "a", "t", "o", "r", " ", "-", "-", ">", NL, "<", "h", "r", " ", "c", "l", "a", "s", "s", "=", "\"", "w", "p", "-", "b", "l", "o", "c", "k", "-", "s", "e", "p", "a", "r", "a", "t", "o", "r", " ", "h", "a", "s", "-", "a", "l", "p", "h", "a", "-", "c", "h", "a", "n", "n", "e", "l", "=", "o", "p", "a", "c", "i", "t", "y", " ", "s", "c", "e", "n", "e", "-", "b", "r", "e", "a", "k", "\"", ">", NL, "<", "!", "-", "-", " ", "/", "w", "p", ":", "s", "e", "p", "a", "r", "a", "t", "o", "r", " ", "-", "-", ">", NL, NL>>

\* columns of leading whitespace, a tab reaching the next multiple of four
RECURSIVE IndentCols(_, _, _)
IndentCols(line, i, col) ==
    IF i <= Len(line) /\ line[i] = " " THEN IndentCols(line, i + 1, col + 1)
    ELSE IF i <= Len(line) /\ line[i] = TAB
    THEN IndentCols(line, i + 1, col + 4 - (col % 4))
    ELSE col

\* rules_block/code: indented by four or more columns
IsCodeLine(line) == ~IsBlank(line) /\ IndentCols(line, 1, 0) >= 4

\* rules_block/hr: three or more of one marker, spaces and tabs between
IsHr(line) ==
    LET s == LStrip(line)
    IN  /\ IndentCols(line, 1, 0) < 4
        /\ s # <<>>
        /\ s[1] \in {"-", "*", "_"}
        /\ \A i \in 1..Len(s) : s[i] \in {s[1], " ", TAB}
        /\ Cardinality({i \in 1..Len(s) : s[i] = s[1]}) >= 3

\* rules_block/heading: the level of an ATX heading line, 0 when it is none
AtxLevel(line) ==
    LET s == LStrip(line)
        n == RunFrom(s, 1, {HASH})
    IN  IF /\ IndentCols(line, 1, 0) < 4
           /\ n >= 1 /\ n <= 6
           /\ (n = Len(s) \/ s[n + 1] \in {" ", TAB})
        THEN n ELSE 0

\* the text of an ATX heading: marks, surrounding spaces and a closing run of
\* marks removed
AtxContent(line) ==
    LET s == LStrip(line)
        t == RStrip(LStrip(Drop(s, RunFrom(s, 1, {HASH}))))
        RECURSIVE TrailHashes(_)
        TrailHashes(k) == IF k >= 1 /\ t[k] = HASH THEN 1 + TrailHashes(k - 1) ELSE 0
        h == TrailHashes(Len(t))
    IN  IF h > 0 /\ (h = Len(t) \/ t[Len(t) - h] \in {" ", TAB})
        THEN RStrip(SubSeq(t, 1, Len(t) - h))
        ELSE t

\* rules_block/lheading: the level of a setext underline, 0 when it is none
SetextLevel(line) ==
    LET s == RStrip(LStrip(line))
    IN  IF IndentCols(line, 1, 0) < 4 /\ s # <<>> /\ s[1] \in {"=", "-"}
           /\ \A i \in 1..Len(s) : s[i] = s[1]
        THEN (IF s[1] = "=" THEN 1 ELSE 2)
        ELSE 0

\* rules_block/html_block, start condition 6: a block-level tag name (here
\* hr) after "<", followed by a space, ">", "/>" or the end of the line
IsHtmlBlockStart(line) ==
    LET s == LStrip(line)
    IN  /\ IndentCols(line, 1, 0) < 4
        /\ StartsWith(s, <<"<", "h", "r">>)
        /\ \/ Len(s) = 3
           \/ s[4] \in {" ", TAB, ">"}
           \/ (Len(s) >= 5 /\ s[4] = "/" /\ s[5] = ">")

\* start condition 7: one complete tag alone on its line
IsHtmlTagLine(line) ==
    LET s == RStrip(LStrip(line))
    IN  IndentCols(line, 1, 0) < 4 /\ s # <<>> /\ HtmlTagLen(s, 1) = Len(s)

\* what ends a paragraph: a blank line or a block that may interrupt it
EndsParagraph(line) ==
    IsBlank(line) \/ IsHr(line) \/ AtxLevel(line) > 0 \/ IsHtmlBlockStart(line)

\* index of the first blank line at or after i, else Len + 1
RECURSIVE FirstBlank(_, _)
FirstBlank(lines, i) ==
    IF i > Len(lines) \/ IsBlank(lines[i]) THEN i ELSE FirstBlank(lines, i + 1)

\* index of the first line at or after i that is not indented code, else Len + 1
RECURSIVE FirstNotCode(_, _)
FirstNotCode(lines, i) ==
    IF i > Len(lines) \/ ~IsCodeLine(lines[i]) THEN i ELSE FirstNotCode(lines, i + 1)

\* the render rules of one MarkdownIt instance that the program overrides
DefaultRules == [paragraph_open |-> "default", paragraph_close |-> "default", hr |-> "default"]

ParagraphOpen(rules) == IF rules.paragraph_open = "default" THEN LIT_P_OPEN ELSE LIT_WP_P_OPEN
ParagraphClose(rules) == IF rules.paragraph_close = "default" THEN LIT_P_CLOSE ELSE LIT_WP_P_CLOSE
HrRule(rules) == IF rules.hr = "default" THEN LIT_HR_NL ELSE LIT_WP_HR

HeadingHtml(level, content) ==
    <<"<", "h", Digit(level), ">">> \o MdRenderInline(content)
        \o <<"<", "/", "h", Digit(level), ">", NL>>

\* the lines of a code block with four columns of indentation removed
RECURSIVE CodeContent(_)
CodeContent(ls) ==
    IF ls = <<>> THEN <<>>
    ELSE (IF Head(ls)[1] = TAB THEN Tail(Head(ls)) ELSE Drop(Head(ls), 4))
             \o <<NL>> \o CodeContent(Tail(ls))

\* MarkdownIt.render over the lines of the source; endsNL tells whether the
\* source ends with a line break (an HTML block is copied as written)
RECURSIVE Blocks(_, _, _, _)
Blocks(rules, lines, i, endsNL) ==
    IF i > Len(lines) THEN <<>>
    ELSE LET line == lines[i] IN
    IF IsBlank(line) THEN Blocks(rules, lines, i + 1, endsNL)
    ELSE IF IsCodeLine(line)
    THEN LET j == FirstNotCode(lines, i)
         IN  LIT_PRE_OPEN \o EscapeHtml(CodeContent(SubSeq(lines, i, j - 1)))
                 \o LIT_PRE_CLOSE \o Blocks(rules, lines, j, endsNL)
    ELSE IF IsHr(line) THEN HrRule(rules) \o Blocks(rules, lines, i + 1, endsNL)
    ELSE IF IsHtmlBlockStart(line) \/ IsHtmlTagLine(line)
    THEN LET j == FirstBlank(lines, i)
             raw == JoinLines(SubSeq(lines, i, j - 1))
         IN  raw \o (IF j <= Len(lines) \/ endsNL THEN <<NL>> ELSE <<>>)
                 \o Blocks(rules, lines, j, endsNL)
    ELSE IF AtxLevel(line) > 0
    THEN HeadingHtml(AtxLevel(line), AtxContent(line))
             \o Blocks(rules, lines, i + 1, endsNL)
    ELSE LET RECURSIVE ParaEnd(_)
             \* the paragraph runs up to a setext underline (inclusive) or
             \* to a line that ends it (exclusive)
             ParaEnd(j) ==
                 IF j > Len(lines) THEN [end |-> j, level |-> 0]
                 ELSE IF IndentCols(lines[j], 1, 0) >= 4 /\ ~IsBlank(lines[j])
                 THEN ParaEnd(j + 1)
                 ELSE IF SetextLevel(lines[j]) > 0
                 THEN [end |-> j, level |-> SetextLevel(lines[j])]
                 ELSE IF EndsParagraph(lines[j]) THEN [end |-> j, level |-> 0]
                 ELSE ParaEnd(j + 1)
             pe == ParaEnd(i + 1)
             StripLine(k) == IF k = i THEN LStrip(lines[k]) ELSE lines[k]
             content == RStrip(JoinLines([k \in 1..(pe.end - i) |-> StripLine(i + k - 1)]))
         IN  IF pe.level > 0
             THEN HeadingHtml(pe.level, content) \o Blocks(rules, lines, pe.end + 1, endsNL)
             ELSE ParagraphOpen(rules) \o MdRenderInline(content) \o ParagraphClose(rules)
                      \o Blocks(rules, lines, pe.end, endsNL)

MdRender(rules, text) ==
    Blocks(rules, SplitLines(text), 1, text # <<>> /\ text[Len(text)] = NL)

(***************************************************************************)
(* src/renderers.py: pure parts                                            *)
(***************************************************************************)
LIT_NOINDENT == <<"<", "p", " ", "c", "l", "a", "s", "s", "=", "\"", "n", "o", "i", "n", "d", "e", "n", "t", "\"", ">">>
LIT_NBSP == <<"&", "n", "b", "s", "p", ";">>
LIT_DIV_CLOSE == <<"<", "/", "d", "i", "v", ">", NL>>
LIT_BR == <<"<", "b", "r", ">">>
LIT_ARROW == <<"-", ">", " ">>
LIT_U003C == <<"\\", "u", "0", "0", "3", "c">>
LIT_U003E == <<"\\", "u", "0", "0", "3", "e">>
LIT_U0022 == <<"\\", "u", "0", "0", "2", "2">>
LIT_POEM_BLOCK_OPEN == <<"<", "!", "-", "-", " ", "w", "p", ":", "l", "a", "z", "y", "b", "l", "o", "c", "k", "/", "p", "o", "e", "m", " ", "{", "\"", "p", "o", "e", "m", "\"", ":", "\"">>
LIT_POEM_BLOCK_CLOSE == <<"\"", "}", " ", "/", "-", "-", ">">>
LIT_FIRST_PUBLISHED == <<"F", "i", "r", "s", "t", " ", "p", "u", "b", "l", "i", "s", "h", "e", "d", " ", "i", "n", " ">>
LIT_COPYRIGHT == <<"C", "o", "p", "y", "r", "i", "g", "h", "t", " ">>

None == [some |-> FALSE, val |-> <<>>]
Some(v) == [some |-> TRUE, val |-> v]

\* the pattern without "\n*": the rule and the paragraph must touch
HrParaMatchEndNoNewlines(s, i) ==
    LET j == i + 3
        Rest(k) == IF k <= Len(s) /\ s[k] = ">" /\ OccursAt(s, LIT_P_OPEN, k + 1)
                   THEN k + 4 ELSE 0
    IN  IF ~OccursAt(s, <<"<", "h", "r">>, i) THEN 0
        ELSE IF OccursAt(s, <<" ", "/">>, j) /\ Rest(j + 2) > 0 THEN Rest(j + 2)
        ELSE Rest(j)

\* the pattern with " /" required: "<hr />\n*<p>"
HrParaMatchEndSlashOnly(s, i) ==
    LET k == i + 5
        q == k + 1 + RunFrom(s, k + 1, {NL})
    IN  IF OccursAt(s, LIT_HR, i) /\ OccursAt(s, LIT_P_OPEN, q) THEN q + 3 ELSE 0

\* end (exclusive) of the match of "<hr( /)?>\n*<p>" that starts at i, else 0
HrParaMatchEnd(s, i) ==
    LET j == i + 3
        \* ">" at k, then newlines, then "<p>"
        Rest(k) == IF k <= Len(s) /\ s[k] = ">"
                   THEN LET q == k + 1 + RunFrom(s, k + 1, {NL})
                        IN  IF OccursAt(s, LIT_P_OPEN, q) THEN q + 3 ELSE 0
                   ELSE 0
    IN  IF ~OccursAt(s, <<"<", "h", "r">>, i) THEN 0
        ELSE IF OccursAt(s, <<" ", "/">>, j) /\ Rest(j + 2) > 0 THEN Rest(j + 2)
        ELSE Rest(j)

\* re.sub("<hr( /)?>\n*<p>", '<p class="noindent">', raw_html)
RECURSIVE SubHrPara(_, _)
SubHrPara(s, i) ==
    IF i > Len(s) THEN <<>>
    ELSE LET e == HrParaMatchEnd(s, i)
         IN  IF e > 0 THEN LIT_NOINDENT \o SubHrPara(s, e)
             ELSE <<s[i]>> \o SubHrPara(s, i + 1)

render_story_for_ebook(text) == SubHrPara(MdRender(DefaultRules, text), 1)

\* the bound one too high
TooManyTabsOffByOne(cnt) == cnt > 5

\* the count of tabs above which _poem_line_to_ebook_html raises
TooManyTabs(cnt) == cnt > 4

\* a blank line rendered like any other line: the element is left empty
poem_line_to_ebook_html_no_placeholder(line) ==
    LET cnt == RunFrom(line, 1, {TAB})
        classes == <<"p", "o", "e", "m">>
                       \o (IF cnt > 0 THEN <<" ", "t", "a", "b", Digit(cnt)>> ELSE <<>>)
        Div(cls, md_line) ==
            <<"<", "d", "i", "v", " ", "c", "l", "a", "s", "s", "=", "\"">> \o cls
                \o <<"\"", ">">> \o md_line \o LIT_DIV_CLOSE
    IN  IF cnt > 0 /\ TooManyTabs(cnt)
        THEN [raised |-> TRUE, html |-> <<>>]
        ELSE [raised |-> FALSE, html |-> Div(classes, MdRenderInline(Drop(line, cnt)))]

\* _poem_line_to_ebook_html: the HTML of one line, or raised
poem_line_to_ebook_html(line) ==
    LET cnt == RunFrom(line, 1, {TAB})
        classes == <<"p", "o", "e", "m">>
                       \o (IF cnt > 0 THEN <<" ", "t", "a", "b", Digit(cnt)>> ELSE <<>>)
        Div(cls, md_line) ==
            <<"<", "d", "i", "v", " ", "c", "l", "a", "s", "s", "=", "\"">> \o cls
                \o <<"\"", ">">> \o md_line \o LIT_DIV_CLOSE
    IN  IF IsBlank(line)
        THEN [raised |-> FALSE, html |-> Div(<<"p", "o", "e", "m">>, LIT_NBSP)]
        ELSE IF cnt > 0 /\ TooManyTabs(cnt)
        THEN [raised |-> TRUE, html |-> <<>>]
        ELSE [raised |-> FALSE, html |-> Div(classes, MdRenderInline(Drop(line, cnt)))]

\* poem_trans
poem_trans(c) ==
    CASE c = "<" -> LIT_U003C
      [] c = ">" -> LIT_U003E
      [] c = "\"" -> LIT_U0022
      [] OTHER -> <<c>>

\* str.translate(poem_trans)
RECURSIVE Translate(_)
Translate(s) ==
    IF s = <<>> THEN <<>> ELSE poem_trans(Head(s)) \o Translate(Tail(s))

\* _poem_line_to_website_html: never raises
poem_line_to_website_html(line) ==
    [raised |-> FALSE,
     html |-> Translate(ReplaceChar(MdRenderInline(line), TAB, LIT_ARROW) \o LIT_BR)]

\* re.match("#+", line): the number of leading hash marks, 0 for no match
HeadingMatch(line) == RunFrom(line, 1, {HASH})

\* the bound one too high
TooManyHashesOffByOne(cnt) == cnt > 7

\* the count of hash marks above which _render_poem raises
TooManyHashes(cnt) == cnt > 6

\* in_content is not remembered: every line is looked at as in HEADER state
LineClassForgetful(in_content, line) ==
    IF IsBlank(line) THEN "skip"
    ELSE IF HeadingMatch(line) = 0 THEN "body"
    ELSE "heading"

\* the blank-line test made before the state test: blank body lines are skipped
LineClassBlankFirst(in_content, line) ==
    IF IsBlank(line) THEN "skip"
    ELSE IF in_content THEN "body"
    ELSE IF HeadingMatch(line) = 0 THEN "body"
    ELSE "heading"

\* the blank-line test left out: a blank line ends HEADER state
LineClassBlankEndsHeader(in_content, line) ==
    IF in_content THEN "body"
    ELSE IF HeadingMatch(line) = 0 THEN "body"
    ELSE "heading"

\* _render_poem, lines 84-96: what the loop does with a line
LineClass(in_content, line) ==
    IF in_content THEN "body"
    ELSE IF IsBlank(line) THEN "skip"
    ELSE IF HeadingMatch(line) = 0 THEN "body"
    ELSE "heading"

\* _render_poem as a function of the lines of the file: the loop from line i
\* on, for the caller f whose MarkdownIt instance has the render rules rules
RECURSIVE render_poem_from(_, _, _, _, _, _, _)
render_poem_from(f, rules, ls, i, in_c, header, body) ==
    IF i > Len(ls) THEN [raised |-> FALSE, header_html |-> header, body_html |-> body]
    ELSE LET line == ls[i]
             cls == LineClass(in_c, line)
             cnt == HeadingMatch(line)
             md_line == MdRender(rules, line)
             is_hr == StartsWith(md_line, LIT_HR)
             verse == IF f = "render_poem_for_ebook"
                      THEN poem_line_to_ebook_html(line)
                      ELSE poem_line_to_website_html(line)
         IN  IF cls = "skip" THEN render_poem_from(f, rules, ls, i + 1, in_c, header, body)
             ELSE IF cls = "heading"
             THEN IF TooManyHashes(cnt)
                  THEN [raised |-> TRUE, header_html |-> <<>>, body_html |-> <<>>]
                  ELSE render_poem_from(f, rules, ls, i + 1, in_c,
                           header \o <<"<", "h", Digit(cnt), ">">>
                               \o MdRenderInline(Drop(line, cnt))
                               \o <<"<", "/", "h", Digit(cnt), ">", NL, NL>>,
                           body)
             ELSE IF is_hr
             THEN render_poem_from(f, rules, ls, i + 1, TRUE, header, body \o md_line)
             ELSE IF verse.raised
             THEN [raised |-> TRUE, header_html |-> <<>>, body_html |-> <<>>]
             ELSE render_poem_from(f, rules, ls, i + 1, TRUE, header, body \o verse.html)

render_poem(f, rules, ls) == render_poem_from(f, rules, ls, 1, FALSE, <<>>, <<>>)

\* end (exclusive) of the match of "#+[^#].*\n*" that starts at i, else 0
HeaderMatchEnd(s, i) ==
    LET n == RunFrom(s, i, {HASH})
        \* the lengths #+ can take so that a character other than # follows
        K == {k \in 1..n : i + k <= Len(s) /\ s[i + k] # HASH}
    IN  IF K = {} THEN 0
        ELSE LET k == CHOOSE x \in K : \A y \in K : y <= x
                 a == i + k + 1
                 b == a + UntilNL(s, a)
             IN  b + RunFrom(s, b, {NL})

\* _remove_header_markdown: re.sub("#+[^#].*\n*", "", text)
RECURSIVE RemoveFrom(_, _)
RemoveFrom(s, i) ==
    IF i > Len(s) THEN <<>>
    ELSE LET e == HeaderMatchEnd(s, i)
         IN  IF e > 0 THEN RemoveFrom(s, e) ELSE <<s[i]>> \o RemoveFrom(s, i + 1)

remove_header_markdown(text) == RemoveFrom(text, 1)

\* index of the first occurrence of p in s at or after i, 0 when there is none
RECURSIVE Find(_, _, _)
Find(s, p, i) ==
    IF i + Len(p) - 1 > Len(s) THEN 0
    ELSE IF OccursAt(s, p, i) THEN i ELSE Find(s, p, i + 1)

\* every occurrence removed instead of the first only (re.sub for re.search)
RECURSIVE RemovePublications(_, _)
RemovePublications(s, i) ==
    IF i > Len(s) THEN <<>>
    ELSE IF OccursAt(s, LIT_FIRST_PUBLISHED, i)
    THEN LET b == i + Len(LIT_FIRST_PUBLISHED) + UntilNL(s, i + Len(LIT_FIRST_PUBLISHED))
         IN  RemovePublications(s, b + RunFrom(s, b, {NL}))
    ELSE <<s[i]>> \o RemovePublications(s, i + 1)

ExtractPublicationAll(text) ==
    LET i == Find(text, LIT_FIRST_PUBLISHED, 1)
        a == i + Len(LIT_FIRST_PUBLISHED)
        b == a + UntilNL(text, a)
    IN  IF i = 0 THEN [text |-> text, orig_publication |-> None]
        ELSE [text |-> RemovePublications(text, 1),
              orig_publication |->
                  Some(MdRenderInline(RStrip(LStrip(SubSeq(text, a, b - 1)))))]

\* re.search("First published in (.*)\n*", text): text without the match and
\* the inline-rendered, stripped group 1
ExtractPublication(text) ==
    LET i == Find(text, LIT_FIRST_PUBLISHED, 1)
        a == i + Len(LIT_FIRST_PUBLISHED)
        b == a + UntilNL(text, a)
        e == b + RunFrom(text, b, {NL})
    IN  IF i = 0 THEN [text |-> text, orig_publication |-> None]
        ELSE [text |-> SubSeq(text, 1, i - 1) \o Drop(text, e - 1),
              orig_publication |->
                  Some(MdRenderInline(RStrip(LStrip(SubSeq(text, a, b - 1)))))]

Digits == {"0", "1", "2", "3", "4", "5", "6", "7", "8", "9"}

\* the match of "Copyright (\(c\)|©) (\d+).+\n*" that starts at i: its end
\* (exclusive) and group 2, end 0 when there is none.  "COPYRIGHT_SIGN" is the
\* character U+00A9.
CopyrightMatch(s, i) ==
    LET a == i + Len(LIT_COPYRIGHT)
        \* index after the mark
        m == IF OccursAt(s, <<"(", "c", ")">>, a) THEN a + 3
             ELSE IF OccursAt(s, <<"COPYRIGHT_SIGN">>, a) THEN a + 1 ELSE 0
        q == m + 1
        d == RunFrom(s, q, Digits)
        r == UntilNL(s, q)
        \* the digits \d+ keeps so that .+ still has a character
        D == {k \in 1..d : r - k >= 1}
    IN  IF ~OccursAt(s, LIT_COPYRIGHT, i) \/ m = 0 \/ ~OccursAt(s, <<" ">>, m) \/ D = {}
        THEN [end |-> 0, year |-> <<>>]
        ELSE LET k == CHOOSE x \in D : \A y \in D : y <= x
                 b == q + r
             IN  [end |-> b + RunFrom(s, b, {NL}), year |-> SubSeq(s, q, q + k - 1)]

RECURSIVE FindCopyright(_, _)
FindCopyright(s, i) ==
    IF i > Len(s) THEN 0
    ELSE IF CopyrightMatch(s, i).end > 0 THEN i ELSE FindCopyright(s, i + 1)

ExtractCopyright(text) ==
    LET i == FindCopyright(text, 1)
        m == CopyrightMatch(text, i)
    IN  IF i = 0 THEN [text |-> text, copyright_year |-> None]
        ELSE [text |-> SubSeq(text, 1, i - 1) \o Drop(text, m.end - 1),
              copyright_year |-> Some(m.year)]

\* MarkdownIt.reset_rules restores, on exit, the rules that were enabled for
\* parsing when the block was entered; the render rules set by
\* add_render_rule inside the block are not part of what it saves
RulesAfterReset(saved, current) == current

\* the render rules after the three add_render_rule calls
GutenbergRules ==
    [paragraph_open |-> "gutenberg", paragraph_close |-> "gutenberg", hr |-> "gutenberg"]

\* MarkdownIt.reset_rules is a generator context manager with no try/finally:
\* when the block raises, nothing after its yield runs
RulesAfterRaise(saved, current) == current

\* render_story_for_website: the returned tuple and the render rules the
\* shared _website_md is left with
render_story_for_website(rules, text0) ==
    LET text1 == remove_header_markdown(text0)
        pub == ExtractPublication(text1)
        cr == ExtractCopyright(pub.text)
        inside == [rules EXCEPT !.paragraph_open = "gutenberg",
                                !.paragraph_close = "gutenberg",
                                !.hr = "gutenberg"]
    IN  [html |-> MdRender(inside, cr.text),
         orig_publication |-> pub.orig_publication,
         copyright_year |-> cr.copyright_year,
         rules |-> RulesAfterReset(rules, inside)]

(***************************************************************************)
(* src/renderers.py: title_to_slug                                         *)
(*                                                                         *)
(* "EACUTE", "AE_LIG" and "POUND" stand for the single characters U+00E9,  *)
(* U+00C6 and U+00A3.                                                      *)
(***************************************************************************)
\* wp_slug_trans, three of its entries
wp_slug_trans(c) ==
    CASE c = "EACUTE" -> <<"e">>
      [] c = "AE_LIG" -> <<"A", "E">>
      [] c = "POUND" -> <<>>
      [] OTHER -> <<c>>

\* str.translate(wp_slug_trans), computed by halves
RECURSIVE TranslateTitle(_)
TranslateTitle(s) ==
    IF s = <<>> THEN <<>>
    ELSE IF Len(s) = 1 THEN wp_slug_trans(s[1])
    ELSE LET h == Len(s) \div 2
         IN  TranslateTitle(SubSeq(s, 1, h)) \o TranslateTitle(SubSeq(s, h + 1, Len(s)))

LowerCase == {"a", "e", "t"}
UpperCase == {"A", "E", "T"}

\* the characters the class \w matches: letters, digits and the underscore
WordChars == LowerCase \cup UpperCase \cup Digits \cup {"_"}

\* re.sub("[^- \\w]", "", title)
KeepsChar(c) == c \in WordChars \cup {"-", " "}
StripTitle(s) == SelectSeq(s, KeepsChar)

\* str.lower()
Lower(s) ==
    [i \in 1..Len(s) |->
        CASE s[i] = "A" -> "a" [] s[i] = "E" -> "e" [] s[i] = "T" -> "t" [] OTHER -> s[i]]

\* str.split(" "): an empty string gives one empty word
RECURSIVE SplitSpaces(_)
SplitSpaces(s) ==
    LET spaces == {i \in 1..Len(s) : s[i] = " "}
        first == CHOOSE i \in spaces : \A j \in spaces : i <= j
    IN  IF spaces = {} THEN <<s>>
        ELSE <<SubSeq(s, 1, first - 1)>> \o SplitSpaces(Drop(s, first))

\* "-".join(words)
RECURSIVE JoinHyphen(_)
JoinHyphen(ws) ==
    IF ws = <<>> THEN <<>>
    ELSE IF Len(ws) = 1 THEN ws[1]
    ELSE ws[1] \o <<"-">> \o JoinHyphen(Tail(ws))

\* str.rstrip("-")
RECURSIVE RStripHyphen(_)
RStripHyphen(s) ==
    IF s # <<>> /\ s[Len(s)] = "-" THEN RStripHyphen(SubSeq(s, 1, Len(s) - 1)) ELSE s

\* accumulate(len(s) + 1 for s in split_post_slug), entry k (1-based)
RECURSIVE SlugLength(_, _)
SlugLength(ws, k) == IF k = 0 THEN 0 ELSE SlugLength(ws, k - 1) + Len(ws[k]) + 1

SlugLimit == 40

\* the limit reached one early
ExceedsLimitOrEqual(item) == item >= SlugLimit

\* item > 40
ExceedsLimit(item) == item > SlugLimit

\* the exception next() raises on the generator over post_slug_lengths:
\* StopIteration when no accumulated length exceeds the limit
NextRaises(title_words) ==
    IF \E k \in 1..Len(title_words) : ExceedsLimit(SlugLength(title_words, k))
    THEN "none" ELSE "StopIteration"

\* nothing is suppressed
SuppressedNone(exc) == FALSE

\* with suppress(StopIteration)
Suppressed(exc) == exc = "StopIteration"

\* the title after translation, stripping and lowering, split into words
SlugWords(title) == SplitSpaces(Lower(StripTitle(TranslateTitle(title))))

title_to_slug(title) ==
    LET split_post_slug == SlugWords(title)
        over == {k \in 1..Len(split_post_slug) : ExceedsLimit(SlugLength(split_post_slug, k))}
        \* max_ndx is 0-based: the words before the first one over the limit
        kept == IF over = {} THEN split_post_slug
                ELSE SubSeq(split_post_slug, 1, (CHOOSE k \in over : \A j \in over : k <= j) - 1)
    IN  RStripHyphen(JoinHyphen(kept))

(***************************************************************************)
(* src/issue_info.py: get_titles_and_authors                               *)
(***************************************************************************)
Token(type, tag, markup, content) ==
    [type |-> type, tag |-> tag, markup |-> markup, content |-> content]

\* the three tokens of a heading or of a paragraph
BlockTokens(name, tag, markup, content) ==
    <<Token(name \o "_open", tag, markup, <<>>),
      Token("inline", "", <<>>, content),
      Token(name \o "_close", tag, markup, <<>>)>>

HeadingTag(level) == CASE level = 1 -> "h1" [] level = 2 -> "h2" [] OTHER -> "hn"

\* MarkdownIt.parse over the lines of the source: the block tokens, with the
\* block rules of MarkdownIt.render
RECURSIVE MdParse(_, _)
MdParse(lines_, i) ==
    IF i > Len(lines_) THEN <<>>
    ELSE LET line == lines_[i] IN
    IF IsBlank(line) THEN MdParse(lines_, i + 1)
    ELSE IF IsCodeLine(line)
    THEN LET j == FirstNotCode(lines_, i)
         IN  <<Token("code_block", "code", <<>>, CodeContent(SubSeq(lines_, i, j - 1)))>>
                 \o MdParse(lines_, j)
    ELSE IF IsHr(line)
    THEN <<Token("hr", "hr", RStrip(LStrip(line)), <<>>)>> \o MdParse(lines_, i + 1)
    ELSE IF IsHtmlBlockStart(line) \/ IsHtmlTagLine(line)
    THEN LET j == FirstBlank(lines_, i)
         IN  <<Token("html_block", "", <<>>, JoinLines(SubSeq(lines_, i, j - 1)))>>
                 \o MdParse(lines_, j)
    ELSE IF AtxLevel(line) > 0
    THEN BlockTokens("heading", HeadingTag(AtxLevel(line)), Rep(HASH, AtxLevel(line)),
                     AtxContent(line))
             \o MdParse(lines_, i + 1)
    ELSE LET RECURSIVE ParaEnd(_)
             ParaEnd(j) ==
                 IF j > Len(lines_) THEN [end |-> j, level |-> 0]
                 ELSE IF IndentCols(lines_[j], 1, 0) >= 4 /\ ~IsBlank(lines_[j])
                 THEN ParaEnd(j + 1)
                 ELSE IF SetextLevel(lines_[j]) > 0
                 THEN [end |-> j, level |-> SetextLevel(lines_[j])]
                 ELSE IF EndsParagraph(lines_[j]) THEN [end |-> j, level |-> 0]
                 ELSE ParaEnd(j + 1)
             pe == ParaEnd(i + 1)
             StripLine(k) == IF k = i THEN LStrip(lines_[k]) ELSE lines_[k]
             content == RStrip(JoinLines([k \in 1..(pe.end - i) |-> StripLine(i + k - 1)]))
         IN  IF pe.level > 0
             THEN BlockTokens("heading", HeadingTag(pe.level),
                              <<IF pe.level = 1 THEN "=" ELSE "-">>, content)
                      \o MdParse(lines_, pe.end + 1)
             ELSE BlockTokens("paragraph", "p", <<>>, content) \o MdParse(lines_, pe.end)

\* re.sub(r"[Bb]y +", "", s), from index i on
RECURSIVE SubBy(_, _)
SubBy(s, i) ==
    IF i > Len(s) THEN <<>>
    ELSE IF s[i] \in {"B", "b"} /\ i + 2 <= Len(s) /\ s[i + 1] = "y" /\ s[i + 2] = " "
    THEN SubBy(s, i + 2 + RunFrom(s, i + 2, {" "}))
    ELSE <<s[i]>> \o SubBy(s, i + 1)

\* a later heading replaces the value found
ScanPairOverwrite(acc, cur_token, next_token) ==
    IF cur_token.markup = <<HASH>>
    THEN [acc EXCEPT !.title = Some(next_token.content)]
    ELSE IF cur_token.markup = <<HASH, HASH>>
    THEN [acc EXCEPT !.author = Some(SubBy(next_token.content, 1))]
    ELSE acc

\* one turn of the loop over pairwise(content)
ScanPair(acc, cur_token, next_token) ==
    IF cur_token.markup = <<HASH>> /\ ~acc.title.some
    THEN [acc EXCEPT !.title = Some(next_token.content)]
    ELSE IF cur_token.markup = <<HASH, HASH>> /\ ~acc.author.some
    THEN [acc EXCEPT !.author = Some(SubBy(next_token.content, 1))]
    ELSE acc

\* the loop over pairwise(content) from pair i on, left when both are found
RECURSIVE ScanTokens(_, _, _)
ScanTokens(content, i, acc) ==
    IF i >= Len(content) THEN acc
    ELSE LET next_acc == ScanPair(acc, content[i], content[i + 1])
         IN  IF next_acc.title.some /\ next_acc.author.some THEN next_acc
             ELSE ScanTokens(content, i + 1, next_acc)

\* title and author of one piece
ScanPiece(doc) == ScanTokens(MdParse(doc, 1), 1, [title |-> None, author |-> None])

\* file_errs of one piece
FileErrs(res) ==
    (IF res.title.some THEN <<>> ELSE <<"No title found.">>)
        \o (IF res.author.some THEN <<>> ELSE <<"No author found.">>)

\* the loop ends at the first piece with an error
PiecesLeftFailFast(n, total, errs_) == n < total /\ errs_ = <<>>

\* the loop over piece_paths has pieces left
PiecesLeft(n, total, errs_) == n < total

(***************************************************************************)
(* src/build_ebook.py: create_content                                      *)
(***************************************************************************)
LIT_PIECE_OPEN == <<"<", "d", "i", "v", " ", "c", "l", "a", "s", "s", "=", "\"", "p", "i", "e", "c", "e", "\"", ">", NL>>
LIT_EBOOK_POEM_OPEN == <<"<", "d", "i", "v", " ", "c", "l", "a", "s", "s", "=", "\"", "p", "o", "e", "m", "\"", ">">>
LIT_EBOOK_POEM_CLOSE == <<"&", "n", "b", "s", "p", ";", "<", "/", "d", "i", "v", ">", NL>>
LIT_ENDMATTER_NEW == <<"<", "/", "d", "i", "v", ">", NL, NL, "<", "d", "i", "v", " ", "c", "l", "a", "s", "s", "=", "\"", "e", "n", "d", "m", "a", "t", "t", "e", "r", "\"", ">", NL, "<", "p", ">", "C", "o", "p", "y", "r", "i", "g", "h", "t", " ", "COPYRIGHT_SIGN", " ">>
LIT_BY == <<" ", "b", "y", " ">>
LIT_ENDMATTER_NEW_CLOSE == <<"<", "/", "p", ">", NL, "<", "/", "d", "i", "v", ">", NL, NL>>
LIT_COPYRIGHT_MARK == <<"<", "p", ">", "C", "o", "p", "y", "r", "i", "g", "h", "t", " ", "COPYRIGHT_SIGN">>
LIT_ENDMATTER_OPEN == <<"<", "/", "d", "i", "v", ">", NL, "<", "d", "i", "v", " ", "c", "l", "a", "s", "s", "=", "\"", "e", "n", "d", "m", "a", "t", "t", "e", "r", "\"", ">", NL>>
LIT_ENDMATTER_CLOSE == <<"<", "/", "d", "i", "v", ">", NL, NL>>
LIT_AUTHOR_PIC == <<"<", "p", " ", "c", "l", "a", "s", "s", "=", "\"", "a", "u", "t", "h", "o", "r", "-", "p", "i", "c", "\"", ">", "<", "i", "m", "g", " ", "c", "l", "a", "s", "s", "=", "\"", "a", "u", "t", "h", "o", "r", "\"", " ", "s", "r", "c", "=", "\"">>
LIT_ALT == <<"\"", " ", "a", "l", "t", "=", "\"">>
LIT_AUTHOR_PIC_CLOSE == <<"\"", "/", ">", "<", "/", "p", ">", NL, NL>>

\* generate_poem of build_ebook.py, from line i on
RECURSIVE generate_poem_from(_, _, _)
generate_poem_from(ls, i, in_c) ==
    IF i > Len(ls) THEN <<>>
    ELSE LET line == ls[i]
         IN  IF ~in_c /\ IsBlank(line) THEN generate_poem_from(ls, i + 1, in_c)
             ELSE IF in_c \/ ~StartsWith(line, <<HASH>>)
             THEN LIT_EBOOK_POEM_OPEN \o line \o LIT_EBOOK_POEM_CLOSE
                      \o generate_poem_from(ls, i + 1, TRUE)
             ELSE IF StartsWith(line, <<HASH, HASH>>)
             THEN <<"<", "h", "2", ">">> \o Drop(line, 2) \o <<"<", "/", "h", "2", ">", NL, NL>>
                      \o generate_poem_from(ls, i + 1, in_c)
             ELSE <<"<", "h", "1", ">">> \o Drop(line, 1) \o <<"<", "/", "h", "1", ">", NL, NL>>
                      \o generate_poem_from(ls, i + 1, in_c)

generate_poem(t) == generate_poem_from(SplitLines(t), 1, FALSE)

\* str.find: index of the first occurrence, 0 for Python's -1
StrFind(s, p) ==
    LET H == {i \in 1..Len(s) : OccursAt(s, p, i)}
    IN  IF H = {} THEN 0 ELSE CHOOSE i \in H : \A j \in H : i <= j

\* the -1 of str.find used as an index: content[:-1] and content[-1:]
WrapReprintUnchecked(content) ==
    LET ndx == StrFind(content, LIT_COPYRIGHT_MARK)
        cut == IF ndx = 0 THEN Len(content) ELSE ndx
    IN  [warned |-> FALSE,
         content |-> SubSeq(content, 1, cut - 1) \o LIT_ENDMATTER_OPEN
                         \o Drop(content, cut - 1) \o LIT_ENDMATTER_CLOSE]

\* the else branch for a reprint: the end div goes before the copyright
\* statement the piece brings, or a warning is printed
WrapReprint(content) ==
    LET ndx == StrFind(content, LIT_COPYRIGHT_MARK)
    IN  IF ndx = 0 THEN [warned |-> TRUE, content |-> content]
        ELSE [warned |-> FALSE,
              content |-> SubSeq(content, 1, ndx - 1) \o LIT_ENDMATTER_OPEN
                              \o Drop(content, ndx - 1) \o LIT_ENDMATTER_CLOSE]

\* the piece as rendered at the head of the chapter
PieceHtml(p) ==
    LIT_PIECE_OPEN \o (IF p.poem THEN generate_poem(p.text) ELSE MdRender(DefaultRules, p.text))

\* the author's picture and bio at the end of the chapter
AuthorHtml(p) ==
    LIT_AUTHOR_PIC \o p.name \o LIT_ALT \o p.author \o LIT_AUTHOR_PIC_CLOSE
        \o MdRender(DefaultRules, p.bio)

\* one turn of the loop of create_content: the content of the chapter and
\* whether the warning is printed
chapter_content(p, current_year) ==
    IF ~p.reprint
    THEN [warned |-> FALSE,
          content |-> PieceHtml(p) \o LIT_ENDMATTER_NEW \o current_year \o LIT_BY \o p.author
                          \o LIT_ENDMATTER_NEW_CLOSE \o AuthorHtml(p)]
    ELSE LET w == WrapReprint(PieceHtml(p))
         IN  [warned |-> w.warned, content |-> w.content \o AuthorHtml(p)]

(***************************************************************************)
(* src/post_issue.py: issue_release_time                                   *)
(*                                                                         *)
(* Dates are records of year, month and day; the time of day is a whole    *)
(* hour, all the function works with.                                      *)
(***************************************************************************)
IsLeap(y) == y % 4 = 0 /\ (y % 100 # 0 \/ y % 400 = 0)

DaysInMonth(y, m) ==
    CASE m \in {4, 6, 9, 11} -> 30
      [] m = 2 -> (IF IsLeap(y) THEN 29 ELSE 28)
      [] OTHER -> 31

\* days from 2000-01-01 to the given date, for the years 2000 to 2099
RECURSIVE DaysBeforeMonth(_, _)
DaysBeforeMonth(y, m) == IF m = 1 THEN 0 ELSE DaysBeforeMonth(y, m - 1) + DaysInMonth(y, m - 1)

DayNumber(y, m, d) ==
    365 * (y - 2000) + ((y - 2000 + 3) \div 4) + DaysBeforeMonth(y, m) + (d - 1)

\* datetime.weekday(): Monday is 0; 2000-01-01 was a Saturday
Weekday(y, m, d) == (5 + DayNumber(y, m, d)) % 7

\* the first Sunday of a month
FirstSunday(y, m) == 1 + ((6 - Weekday(y, m, 1)) % 7)

\* pytz America/Chicago, rules since 2007, at 11:00 local time of the given
\* day: daylight time from the second Sunday of March to the first Sunday of
\* November; utcoffset in hours
ChicagoUtcOffset(y, m, d) ==
    LET start == FirstSunday(y, 3) + 7
        end == FirstSunday(y, 11)
        dst == /\ (m > 3 \/ (m = 3 /\ d >= start))
               /\ (m < 11 \/ (m = 11 /\ d < end))
    IN  IF dst THEN 0 - 5 ELSE 0 - 6

\* (dt + timedelta(days=32)).replace(day=1) for dt on the first of a month
FirstOfNextMonth(y, m) ==
    IF m = 12 THEN [year |-> y + 1, month |-> 1, day |-> 1]
    ELSE [year |-> y, month |-> m + 1, day |-> 1]

\* issue_release_time: tz_delta is taken for the first day of the month, then
\* the date is moved to the Monday
issue_release_time(year_month, now) ==
    LET first == IF year_month.some
                 THEN [year |-> year_month.val[1], month |-> year_month.val[2], day |-> 1]
                 ELSE FirstOfNextMonth(now[1], now[2])
        tz_delta == ChicagoUtcOffset(first.year, first.month, first.day)
        wd == Weekday(first.year, first.month, first.day)
        day == IF wd # 0 THEN first.day + (7 - wd) ELSE first.day
    IN  [year |-> first.year, month |-> first.month, day |-> day, hour |-> 11 - tz_delta]

(***************************************************************************)
(* src/post_issue.py: looking up and creating the site's objects           *)
(*                                                                         *)
(* The site is modelled by what it answers: for each create step, the      *)
(* number of objects that match the step's query.  The id of an object is  *)
(* the step's name and the object's position in the answer.                *)
(***************************************************************************)
CreateSteps == {"cover", "issue", "avatar", "author", "piece"}

\* resp.json() of the lookup: the ids of the matching objects
LookupJson(kind, count) == [n \in 1..count |-> <<kind, n>>]

\* get_existing_wp_object after the request: json is the answer, c the digit
\* the user types when asked
get_existing_wp_object(json, c) ==
    IF Len(json) > 0
    THEN IF Len(json) > 1
         THEN IF Len(json) > 9
              THEN [exc |-> "NotImplementedError", obj_id |-> None]
              ELSE IF c > 0
                   THEN IF c - 1 < Len(json)
                        THEN [exc |-> "none", obj_id |-> Some(json[c])]
                        ELSE [exc |-> "IndexError", obj_id |-> None]
                   ELSE [exc |-> "none", obj_id |-> None]
         ELSE [exc |-> "none", obj_id |-> Some(json[1])]
    ELSE [exc |-> "none", obj_id |-> None]

\* every step creates
NeedsCreateAlways(id) == TRUE

\* "if cover_id is None", "if not author_id": ids are positive
NeedsCreate(id) == ~id.some

\* the POST requests of a step that creates its object
CreatePosts(kind) ==
    CASE kind \in {"cover", "avatar"} -> <<"media", "media/id">>
      [] kind = "issue" -> <<"issue">>
      [] kind = "author" -> <<"ppma_author", "ppma_author_meta/id">>
      [] OTHER -> <<"piece">>

(***************************************************************************)
(* src/post_issue.py: requests to the site                                 *)
(*                                                                         *)
(* A response is its status code, its body and, for the folder query, the  *)
(* folder tree.  A body is JSON or not, and JSON holds a "code" or not.    *)
(* A code is a sequence of the pieces the program tells apart.             *)
(***************************************************************************)
JWT_AUTH_PREFIX == <<"[jwt_auth]">>
JWT_PREFIX == <<"jwt_">>
INVALID_TOKEN == <<"jwt_", "auth_invalid_token">>

\* response_jwt_error: the error of a body, None if there is none
response_jwt_error(body) ==
    IF ~body.json THEN None
    ELSE IF ~body.code.some \/ body.code.val = <<>> THEN None
    ELSE IF StartsWith(body.code.val, JWT_AUTH_PREFIX)
         THEN Some(RStrip(LStrip(Drop(body.code.val, Len(JWT_AUTH_PREFIX)))))
    ELSE IF StartsWith(body.code.val, JWT_PREFIX)
         THEN Some(RStrip(LStrip(body.code.val)))
    ELSE None

\* only client errors raise
check_response_client_only(status_code) == 400 <= status_code /\ status_code < 500

\* check_response: TRUE when it raises HTTPError
check_response(status_code) ==
    \/ (400 <= status_code /\ status_code < 500)
    \/ (500 <= status_code /\ status_code < 600)

\* wp_request: the token has expired, get a new one and send again
TokenExpired(response) ==
    /\ response.status_code = 403
    /\ response_jwt_error(response.body) = Some(INVALID_TOKEN)

\* {folder["name"].lower(): folder["id"] for folder in tree}: a later folder
\* of the same lower-cased name replaces an earlier one
FolderDict(tree) ==
    {<<Lower(tree[i].name), tree[i].id>> : i \in
        {j \in 1..Len(tree) :
            \A k \in (j + 1)..Len(tree) : Lower(tree[k].name) # Lower(tree[j].name)}}

(***************************************************************************)
(* Inputs                                                                  *)
(***************************************************************************)
SeqsUpTo(S, n) == UNION {[1..k -> S] : k \in 0..n}

\* lines without heading marks and tabs
PlainLineSet ==
    {<<>>, <<" ">>, <<"a">>, <<"-", "-", "-">>, <<"<", "b", ">", "a", "\"">>}

\* the lines poem files with headings are made of
PoemLineSet == PlainLineSet \cup {Rep(HASH, n) \o <<"T">> : n \in 1..MaxHashes}

\* the lines poem files with indented verse are made of
TabbedLineSet ==
    PlainLineSet \cup {<<"a", TAB, "b">>} \cup {Rep(TAB, k) \o <<"a">> : k \in 1..MaxTabs}

\* one line of each kind
CoreLineSet ==
    {<<>>, <<"a">>, <<"-", "-", "-">>, <<HASH, "T">>, <<TAB, "a">>,
     <<"<", "b", ">", "a", "\"">>}

\* short poems of all heading depths, short poems of all indentations, and
\* longer poems of one line of each kind
PoemFiles ==
    {JoinLines(ls) : ls \in SeqsUpTo(PoemLineSet, MaxDetailLines)
                               \cup SeqsUpTo(TabbedLineSet, MaxDetailLines)
                               \cup SeqsUpTo(CoreLineSet, MaxPoemLines)}

\* the lines of stories with headings
HeadingLineSet ==
    {<<>>, <<"P">>, <<"P", HASH, "x">>, <<HASH>>, <<HASH, HASH>>, <<HASH, " ", "T">>,
     <<HASH, "T">>}

\* the lines of stories with scene breaks
BreakLineSet ==
    {<<>>, <<"P">>, <<"-", "-", "-">>, <<"<", "h", "r", ">">>, <<"<", "h", "r", "/", ">">>}

\* the lines story files are made of
StoryLineSet == HeadingLineSet \cup BreakLineSet

\* the lines of the end matter of a reprinted story
MetaLineSet ==
    {<<>>, <<"P">>,
     LIT_FIRST_PUBLISHED \o <<"x">>,
     LIT_FIRST_PUBLISHED \o <<"b">>,
     LIT_COPYRIGHT \o <<"(", "c", ")", " ", "2", "0", "1", "7", ",", " ", "x">>,
     LIT_COPYRIGHT \o <<"(", "c", ")", " ", "2", "0", "1", "7">>,
     LIT_COPYRIGHT \o <<"COPYRIGHT_SIGN", " ", "1", "9", "9", "9", " ", "x">>}

\* stories with headings, stories with scene breaks, shorter stories with
\* both, and stories with end matter
StoryFiles ==
    {JoinLines(ls) \o nl : ls \in SeqsUpTo(HeadingLineSet, MaxStoryLines)
                                      \cup SeqsUpTo(BreakLineSet, MaxStoryLines)
                                      \cup SeqsUpTo(StoryLineSet, MaxStoryLines - 1)
                                      \cup SeqsUpTo(MetaLineSet, MaxMetaLines),
                           nl \in {<<>>, <<NL>>}}

\* "str".join of words with one space
RECURSIVE JoinSpaces(_)
JoinSpaces(ws) ==
    IF ws = <<>> THEN <<>>
    ELSE IF Len(ws) = 1 THEN ws[1]
    ELSE ws[1] \o <<" ">> \o JoinSpaces(Tail(ws))

\* the characters short titles are made of
TitleChars == {"a", "T", "1", " ", "-", "_", "'", "EACUTE", "AE_LIG", "POUND"}

\* the words long titles are made of
LongWords == {Rep("a", n) : n \in {1, 19, 20, 39, 40, 41}}

\* short titles of all characters and long titles of plain words
Titles ==
    SeqsUpTo(TitleChars, MaxTitleLen)
        \cup {JoinSpaces(ws) : ws \in SeqsUpTo(LongWords, MaxWords)}

Chars(str) ==
    CASE str = "# T" -> <<HASH, " ", "T">>
      [] str = "# U" -> <<HASH, " ", "U">>
      [] str = "## By A" -> <<HASH, HASH, " ", "B", "y", " ", "A">>
      [] str = "## Abby C" -> <<HASH, HASH, " ", "A", "b", "b", "y", " ", "C">>
      [] str = "===" -> <<"=", "=", "=">>

\* the lines pieces are made of
PieceLineSet == {Chars(str) : str \in {"# T", "# U", "## By A", "## Abby C", "==="}}

\* the pieces of an issue, as lines
PieceDocs == SeqsUpTo(PieceLineSet, MaxPieceLines)

\* the texts of the pieces of an ebook
EbookTexts ==
    {<<"P">>,
     <<"P", NL, NL>> \o LIT_COPYRIGHT \o <<"COPYRIGHT_SIGN", " ", "1", "9", "9", "9", " ", "x">>,
     LIT_COPYRIGHT \o <<"(", "c", ")", " ", "2", "0", "1", "7", " ", "x">>,
     <<HASH, "T", NL>> \o LIT_COPYRIGHT \o <<"COPYRIGHT_SIGN", " ", "1", "9", "9", "9">>}

\* the pieces of an ebook: the path says whether the piece is a poem and
\* whether it is a reprint
EbookPieces ==
    {[poem |-> po, reprint |-> re, text |-> t, name |-> <<"n">>, author |-> <<"A">>,
      bio |-> <<"B">>] : po \in BOOLEAN, re \in BOOLEAN, t \in EbookTexts}

\* datetime.datetime.now().year, as text
CurrentYears == {<<"2", "0", "2", "6">>}

\* the years and months issues are released in, and the current month
YearMonths == {<<y, m>> : y \in 2021..2024, m \in 1..12}

\* the requests the program sends
Requests == {[verb |-> "GET", endpoint |-> "media"], [verb |-> "POST", endpoint |-> "piece"]}

\* the bodies of the site's responses
Bodies ==
    {[json |-> FALSE, code |-> None], [json |-> TRUE, code |-> None]}
    \cup {[json |-> TRUE, code |-> Some(c)] : c \in
            {<<"[jwt_auth]", " ", "jwt_", "auth_invalid_token">>,
             <<"jwt_", "auth_invalid_token">>,
             <<"[jwt_auth]", " ", "incorrect_password">>,
             <<"jwt_", "auth_bad_config">>,
             <<"rest_forbidden">>}}

StatusCodes == {200, 204, 403, 404, 500}

\* the folder trees of the Real Media Library
FolderTrees ==
    {<<>>,
     <<[name |-> <<"T">>, id |-> 1]>>,
     <<[name |-> <<"T">>, id |-> 1], [name |-> <<"t">>, id |-> 2]>>}

Responses ==
    {[status_code |-> st, body |-> b, tree |-> <<>>] : st \in StatusCodes, b \in Bodies}
    \cup {[status_code |-> 200, body |-> [json |-> TRUE, code |-> None], tree |-> t] :
            t \in FolderTrees}

\* the stories rendered between poems
FewStories == {<<"P">>, <<"-", "-", "-", NL, "P", NL>>}

(***************************************************************************)
(* State                                                                   *)
(***************************************************************************)
VARIABLES
    website_rules,  \* render rules of the shared _website_md
    pc,             \* "idle", "poem_loop", "returned" or "raised"
    op,             \* the function being run
    text,           \* p.read_text()
    lines,          \* _render_poem: lines
    idx,            \* _render_poem: index of the next line of the for loop
    in_content,     \* _render_poem: in_content
    header_html,    \* _render_poem: header_html
    body_html,      \* _render_poem: body_html
    steps,          \* history: what the loop did with each line so far
    result,         \* the returned HTML
    orig_publication, \* render_story_for_website: second value returned
    copyright_year, \* render_story_for_website: third value returned
    rules_at_call,  \* history: website_rules when the running call began
    slug_pc,        \* title_to_slug: "idle", "returned" or "raised"
    slug_title,     \* title_to_slug: title
    slug,           \* title_to_slug: the returned slug
    issue_pc,       \* get_titles_and_authors: "idle", "loop", "scanned", "returned", "raised"
    piece_count,    \* len(piece_paths)
    piece_no,       \* number of pieces the loop has taken
    piece,          \* the lines of the piece the loop is at
    found,          \* title and author after the scan of that piece
    titles,         \* titles
    authors,        \* authors
    errs,           \* errs: piece number and file_errs of each entry
    lacking,        \* history: per piece taken, the headings its tokens lack
    ebook_pc,       \* create_content: "idle", "loop" or "returned"
    ebook_total,    \* len(piece_paths)
    ebook_before,   \* len(ebook_chs) when create_content was called
    ebook_chs,      \* ebook_chs: file number and content of each chapter
    warnings,       \* the pieces a warning was printed for, by number
    ebook_pieces,   \* history: the pieces the loop has taken
    release_pc,     \* issue_release_time: "idle" or "returned"
    year_month,     \* issue_release_time: the argument, if given
    utcnow,         \* year and month of datetime.utcnow() at the call
    release_time,   \* the returned datetime: year, month, day, hour
    site,           \* per create step, the number of objects matching its query
    wp_pc,          \* create step: "idle", "looked", "returned" or "raised"
    wp_kind,        \* the create step running
    wp_found,       \* the number of objects the lookup found
    wp_key,         \* the digit typed when asked to pick one
    obj_id,         \* the id the step holds
    wp_exc,         \* the exception that left the step, "none" if none
    posts,          \* the POST requests the step has sent
    site_at_call,   \* history: site when the step was called
    req_pc,         \* wp_request: "idle", "sending", "expired", "returned",
                    \* "raised", or "done" when setup_rml_folders has returned
    req_caller,     \* "wp_request" or "setup_rml_folders"
    request,        \* the request wp_request was called with
    current_token,  \* the token: the number of tokens obtained so far
    h,              \* the token in the headers of the request
    sent,           \* history: the requests sent in this call and their responses
    req_exc,        \* the exception that left the call, "none" if none
    rml_folders,    \* the folder mapping, None before it is set
    rml_warned      \* setup_rml_folders has printed its warning

poemVars == <<lines, idx, in_content, header_html, body_html, steps>>
storyVars == <<orig_publication, copyright_year>>
slugVars == <<slug_pc, slug_title, slug>>
issueVars == <<issue_pc, piece_count, piece_no, piece, found, titles, authors, errs, lacking>>
ebookVars == <<ebook_pc, ebook_total, ebook_before, ebook_chs, warnings, ebook_pieces>>
releaseVars == <<release_pc, year_month, utcnow, release_time>>
wpVars == <<site, wp_pc, wp_kind, wp_found, wp_key, obj_id, wp_exc, posts, site_at_call>>
reqVars == <<req_pc, req_caller, request, current_token, h, sent, req_exc, rml_folders,
             rml_warned>>
restVars == <<slugVars, issueVars, ebookVars, releaseVars, wpVars, reqVars>>
vars == <<website_rules, pc, op, text, lines, idx, in_content, header_html,
          body_html, steps, result, orig_publication, copyright_year, rules_at_call,
          slug_pc, slug_title, slug,
          issue_pc, piece_count, piece_no, piece, found, titles, authors, errs, lacking,
          ebook_pc, ebook_total, ebook_before, ebook_chs, warnings, ebook_pieces,
          release_pc, year_month, utcnow, release_time,
          site, wp_pc, wp_kind, wp_found, wp_key, obj_id, wp_exc, posts, site_at_call,
          req_pc, req_caller, request, current_token, h, sent, req_exc, rml_folders,
          rml_warned>>

Init ==
    /\ website_rules = DefaultRules
    /\ pc = "idle"
    /\ op = "none"
    /\ text = <<>>
    /\ lines = <<>>
    /\ idx = 1
    /\ in_content = FALSE
    /\ header_html = <<>>
    /\ body_html = <<>>
    /\ steps = <<>>
    /\ result = <<>>
    /\ orig_publication = None
    /\ copyright_year = None
    /\ rules_at_call = DefaultRules
    /\ slug_pc = "idle"
    /\ slug_title = <<>>
    /\ slug = <<>>
    /\ issue_pc = "idle"
    /\ piece_count = 0
    /\ piece_no = 0
    /\ piece = <<>>
    /\ found = [title |-> None, author |-> None]
    /\ titles = <<>>
    /\ authors = <<>>
    /\ errs = <<>>
    /\ lacking = <<>>
    /\ ebook_pc = "idle"
    /\ ebook_total = 0
    /\ ebook_before = 0
    /\ ebook_chs = <<>>
    /\ warnings = <<>>
    /\ ebook_pieces = <<>>
    /\ release_pc = "idle"
    /\ year_month = None
    /\ utcnow = <<2021, 1>>
    /\ release_time = [year |-> 0, month |-> 0, day |-> 0, hour |-> 0]
    /\ site = [k \in CreateSteps |-> 0]
    /\ wp_pc = "idle"
    /\ wp_kind = "none"
    /\ wp_found = 0
    /\ wp_key = 0
    /\ obj_id = None
    /\ wp_exc = "none"
    /\ posts = <<>>
    /\ site_at_call = [k \in CreateSteps |-> 0]
    /\ req_pc = "idle"
    /\ req_caller = "none"
    /\ request = [verb |-> "GET", endpoint |-> "media"]
    /\ current_token = 1
    /\ h = 1
    /\ sent = <<>>
    /\ req_exc = "none"
    /\ rml_folders = None
    /\ rml_warned = FALSE

(***************************************************************************)
(* Poems                                                                   *)
(***************************************************************************)
\* the render rules of the MarkdownIt instance the running poem uses
PoemRules == IF op = "render_poem_for_website" THEN website_rules ELSE DefaultRules

\* render_poem_for_ebook / render_poem_for_website call _render_poem, which
\* reads the file and splits it into lines
CallRenderPoem(f, t) ==
    /\ pc = "idle"
    /\ pc' = "poem_loop"
    /\ op' = f
    /\ text' = t
    /\ lines' = SplitLines(t)
    /\ idx' = 1
    /\ in_content' = FALSE
    /\ header_html' = <<>>
    /\ body_html' = <<>>
    /\ steps' = <<>>
    /\ result' = <<>>
    /\ rules_at_call' = website_rules
    /\ UNCHANGED <<website_rules, storyVars, restVars>>

\* one iteration of the for loop of _render_poem
PoemLine ==
    /\ pc = "poem_loop"
    /\ idx <= Len(lines)
    /\ LET line == lines[idx]
           cls == LineClass(in_content, line)
           cnt == HeadingMatch(line)
           md_line == MdRender(PoemRules, line)
           is_hr == StartsWith(md_line, LIT_HR)
           verse == IF op = "render_poem_for_ebook"
                    THEN poem_line_to_ebook_html(line)
                    ELSE poem_line_to_website_html(line)
           heading == <<"<", "h", Digit(cnt), ">">> \o MdRenderInline(Drop(line, cnt))
                          \o <<"<", "/", "h", Digit(cnt), ">", NL, NL>>
           raises == \/ cls = "heading" /\ TooManyHashes(cnt)
                     \/ cls = "body" /\ ~is_hr /\ verse.raised
           html == IF cls = "heading" THEN heading
                   ELSE IF cls = "skip" THEN <<>>
                   ELSE IF is_hr THEN md_line
                   ELSE verse.html
           kind == IF cls = "body" THEN (IF is_hr THEN "hr" ELSE "verse") ELSE cls
       IN  /\ in_content' = (in_content \/ cls = "body")
           /\ IF raises
              THEN /\ pc' = "raised"
                   /\ steps' = Append(steps, [kind |-> "raise", html |-> <<>>])
                   /\ UNCHANGED <<header_html, body_html>>
              ELSE /\ pc' = pc
                   /\ steps' = Append(steps, [kind |-> kind, html |-> html])
                   /\ header_html' = IF cls = "heading" THEN header_html \o html
                                     ELSE header_html
                   /\ body_html' = IF cls = "body" THEN body_html \o html ELSE body_html
    /\ idx' = idx + 1
    /\ UNCHANGED <<website_rules, op, text, lines, result, storyVars, rules_at_call, restVars>>

\* the website caller keeps the header it is given
PoemReturnKeepsHeader ==
    /\ pc = "poem_loop"
    /\ idx > Len(lines)
    /\ pc' = "returned"
    /\ result' = IF op = "render_poem_for_ebook"
                 THEN header_html \o body_html
                 ELSE LIT_POEM_BLOCK_OPEN \o header_html \o body_html \o LIT_POEM_BLOCK_CLOSE
    /\ UNCHANGED <<website_rules, op, text, poemVars, storyVars, rules_at_call, restVars>>

\* the loop is over: _render_poem returns and the caller builds its result
PoemReturn ==
    /\ pc = "poem_loop"
    /\ idx > Len(lines)
    /\ pc' = "returned"
    /\ result' = IF op = "render_poem_for_ebook"
                 THEN header_html \o body_html
                 ELSE LIT_POEM_BLOCK_OPEN \o body_html \o LIT_POEM_BLOCK_CLOSE
    /\ UNCHANGED <<website_rules, op, text, poemVars, storyVars, rules_at_call, restVars>>

(***************************************************************************)
(* Stories                                                                 *)
(***************************************************************************)
RenderStoryForEbook(t) ==
    /\ pc = "idle"
    /\ pc' = "returned"
    /\ op' = "render_story_for_ebook"
    /\ text' = t
    /\ result' = render_story_for_ebook(t)
    /\ rules_at_call' = website_rules
    /\ UNCHANGED <<website_rules, poemVars, storyVars, restVars>>

RenderStoryForWebsite(t) ==
    /\ pc = "idle"
    /\ LET r == render_story_for_website(website_rules, t)
       IN  /\ result' = r.html
           /\ orig_publication' = r.orig_publication
           /\ copyright_year' = r.copyright_year
           /\ website_rules' = r.rules
    /\ pc' = "returned"
    /\ op' = "render_story_for_website"
    /\ text' = t
    /\ rules_at_call' = website_rules
    /\ UNCHANGED <<poemVars, restVars>>

\* _website_md.render raises inside the with block: nothing is returned
RenderStoryForWebsiteRaises(t) ==
    /\ pc = "idle"
    /\ website_rules' = RulesAfterRaise(website_rules, GutenbergRules)
    /\ pc' = "raised"
    /\ op' = "render_story_for_website"
    /\ text' = t
    /\ result' = <<>>
    /\ orig_publication' = None
    /\ copyright_year' = None
    /\ rules_at_call' = website_rules
    /\ UNCHANGED <<poemVars, restVars>>

\* the caller goes on to its next piece; the module-level renderers stay
NextPiece ==
    /\ pc \in {"returned", "raised"}
    /\ pc' = "idle"
    /\ op' = "none"
    /\ text' = <<>>
    /\ lines' = <<>>
    /\ idx' = 1
    /\ in_content' = FALSE
    /\ header_html' = <<>>
    /\ body_html' = <<>>
    /\ steps' = <<>>
    /\ result' = <<>>
    /\ orig_publication' = None
    /\ copyright_year' = None
    /\ rules_at_call' = website_rules
    /\ UNCHANGED <<website_rules, restVars>>

\* poems, rendered for both targets on the renderers that stories share
Next ==
    \/ \E t \in PoemFiles : CallRenderPoem("render_poem_for_ebook", t)
    \/ \E t \in PoemFiles : CallRenderPoem("render_poem_for_website", t)
    \/ PoemLine
    \/ PoemReturn
    \/ \E t \in FewStories : RenderStoryForWebsite(t)
    \/ NextPiece

Spec == Init /\ [][Next]_vars

\* stories, rendered for both targets
NextStory ==
    \/ \E t \in StoryFiles : RenderStoryForEbook(t)
    \/ \E t \in StoryFiles : RenderStoryForWebsite(t)
    \/ \E t \in FewStories : RenderStoryForWebsiteRaises(t)
    \/ NextPiece

SpecStory == Init /\ [][NextStory]_vars

(***************************************************************************)
(* Slugs                                                                   *)
(***************************************************************************)
renderVars == <<website_rules, pc, op, text, poemVars, result, storyVars, rules_at_call>>

TitleToSlug(t) ==
    /\ slug_pc = "idle"
    /\ slug_title' = t
    /\ LET exc == NextRaises(SlugWords(t))
       IN  IF exc # "none" /\ ~Suppressed(exc)
           THEN slug_pc' = "raised" /\ slug' = <<>>
           ELSE slug_pc' = "returned" /\ slug' = title_to_slug(t)
    /\ UNCHANGED <<renderVars, issueVars, ebookVars, releaseVars, wpVars, reqVars>>

\* the caller goes on to its next title
NextTitle ==
    /\ slug_pc \in {"returned", "raised"}
    /\ slug_pc' = "idle"
    /\ slug_title' = <<>>
    /\ slug' = <<>>
    /\ UNCHANGED <<renderVars, issueVars, ebookVars, releaseVars, wpVars, reqVars>>

NextSlug ==
    \/ \E t \in Titles : TitleToSlug(t)
    \/ NextTitle

SpecSlug == Init /\ [][NextSlug]_vars

(***************************************************************************)
(* Titles and authors of an issue                                          *)
(***************************************************************************)
\* the headings, by markup, that the tokens of a piece do not have
Lacks(doc) ==
    LET content == MdParse(doc, 1)
        Has(markup) ==
            \E i \in 1..Len(content) :
                content[i].type = "heading_open" /\ content[i].markup = markup
    IN  (IF Has(<<HASH>>) THEN {} ELSE {"title"})
            \cup (IF Has(<<HASH, HASH>>) THEN {} ELSE {"author"})

GetTitlesAndAuthors(total) ==
    /\ issue_pc = "idle"
    /\ issue_pc' = "loop"
    /\ piece_count' = total
    /\ UNCHANGED <<piece_no, piece, found, titles, authors, errs, lacking>>
    /\ UNCHANGED <<renderVars, slugVars, ebookVars, releaseVars, wpVars, reqVars>>

\* one turn of the loop over piece_paths, first half: read, parse and scan
TakePiece(doc) ==
    /\ issue_pc = "loop"
    /\ PiecesLeft(piece_no, piece_count, errs)
    /\ issue_pc' = "scanned"
    /\ piece' = doc
    /\ found' = ScanPiece(doc)
    /\ UNCHANGED <<piece_count, piece_no, titles, authors, errs, lacking>>
    /\ UNCHANGED <<renderVars, slugVars, ebookVars, releaseVars, wpVars, reqVars>>

\* second half: the piece goes to errs or to the lists
RecordPiece ==
    /\ issue_pc = "scanned"
    /\ issue_pc' = "loop"
    /\ LET file_errs == FileErrs(found)
       IN  IF file_errs # <<>>
           THEN /\ errs' = Append(errs, [fp |-> piece_no + 1, file_errs |-> file_errs])
                /\ UNCHANGED <<titles, authors>>
           ELSE /\ titles' = Append(titles, found.title.val)
                /\ authors' = Append(authors, found.author.val)
                /\ UNCHANGED errs
    /\ piece_no' = piece_no + 1
    /\ lacking' = Append(lacking, Lacks(piece))
    /\ piece' = <<>>
    /\ found' = [title |-> None, author |-> None]
    /\ UNCHANGED piece_count
    /\ UNCHANGED <<renderVars, slugVars, ebookVars, releaseVars, wpVars, reqVars>>

\* after the loop: raise when errs is not empty, else return the lists
EndOfPieces ==
    /\ issue_pc = "loop"
    /\ ~PiecesLeft(piece_no, piece_count, errs)
    /\ IF errs # <<>>
       THEN /\ issue_pc' = "raised"
            /\ titles' = <<>>
            /\ authors' = <<>>
       ELSE /\ issue_pc' = "returned"
            /\ UNCHANGED <<titles, authors>>
    /\ UNCHANGED <<piece, found, piece_count, piece_no, errs, lacking>>
    /\ UNCHANGED <<renderVars, slugVars, ebookVars, releaseVars, wpVars, reqVars>>

\* the caller goes on to another issue
NextIssue ==
    /\ issue_pc \in {"returned", "raised"}
    /\ issue_pc' = "idle"
    /\ piece_count' = 0
    /\ piece_no' = 0
    /\ titles' = <<>>
    /\ authors' = <<>>
    /\ errs' = <<>>
    /\ lacking' = <<>>
    /\ UNCHANGED <<piece, found>>
    /\ UNCHANGED <<renderVars, slugVars, ebookVars, releaseVars, wpVars, reqVars>>

NextIssueInfo ==
    \/ \E total \in 0..MaxPieces : GetTitlesAndAuthors(total)
    \/ \E doc \in PieceDocs : TakePiece(doc)
    \/ RecordPiece
    \/ EndOfPieces
    \/ NextIssue

SpecIssue == Init /\ [][NextIssueInfo]_vars

(***************************************************************************)
(* Ebook content                                                           *)
(***************************************************************************)
\* create_content is called with the chapters added before it
CreateContent(total, before) ==
    /\ ebook_pc = "idle"
    /\ ebook_pc' = "loop"
    /\ ebook_total' = total
    /\ ebook_before' = before
    /\ ebook_chs' = [k \in 1..before |-> [file |-> k - 1, content |-> <<>>]]
    /\ warnings' = <<>>
    /\ ebook_pieces' = <<>>
    /\ UNCHANGED <<renderVars, slugVars, issueVars, releaseVars, wpVars, reqVars>>

\* one turn of the loop over the pieces
ContentPiece(p, current_year) ==
    /\ ebook_pc = "loop"
    /\ Len(ebook_pieces) < ebook_total
    /\ LET c == chapter_content(p, current_year)
       IN  /\ warnings' = IF c.warned THEN Append(warnings, Len(ebook_pieces) + 1)
                          ELSE warnings
           /\ ebook_chs' = Append(ebook_chs, [file |-> Len(ebook_chs), content |-> c.content])
    /\ ebook_pieces' = Append(ebook_pieces, p)
    /\ UNCHANGED <<ebook_pc, ebook_total, ebook_before>>
    /\ UNCHANGED <<renderVars, slugVars, issueVars, releaseVars, wpVars, reqVars>>

\* the loop is over
ContentReturn ==
    /\ ebook_pc = "loop"
    /\ Len(ebook_pieces) = ebook_total
    /\ ebook_pc' = "returned"
    /\ UNCHANGED <<ebook_total, ebook_before, ebook_chs, warnings, ebook_pieces>>
    /\ UNCHANGED <<renderVars, slugVars, issueVars, releaseVars, wpVars, reqVars>>

\* another ebook is built
NextEbook ==
    /\ ebook_pc = "returned"
    /\ ebook_pc' = "idle"
    /\ ebook_total' = 0
    /\ ebook_before' = 0
    /\ ebook_chs' = <<>>
    /\ warnings' = <<>>
    /\ ebook_pieces' = <<>>
    /\ UNCHANGED <<renderVars, slugVars, issueVars, releaseVars, wpVars, reqVars>>

NextEbookContent ==
    \/ \E total \in 0..MaxChapters, before \in 0..1 : CreateContent(total, before)
    \/ \E p \in EbookPieces, y \in CurrentYears : ContentPiece(p, y)
    \/ ContentReturn
    \/ NextEbook

SpecEbook == Init /\ [][NextEbookContent]_vars

(***************************************************************************)
(* Release time                                                            *)
(***************************************************************************)
IssueReleaseTime(arg, now) ==
    /\ release_pc = "idle"
    /\ release_pc' = "returned"
    /\ year_month' = arg
    /\ utcnow' = now
    /\ release_time' = issue_release_time(arg, now)
    /\ UNCHANGED <<renderVars, slugVars, issueVars, ebookVars, wpVars, reqVars>>

\* the caller goes on
ReleaseTimeUsed ==
    /\ release_pc = "returned"
    /\ release_pc' = "idle"
    /\ year_month' = None
    /\ utcnow' = <<2021, 1>>
    /\ release_time' = [year |-> 0, month |-> 0, day |-> 0, hour |-> 0]
    /\ UNCHANGED <<renderVars, slugVars, issueVars, ebookVars, wpVars, reqVars>>

NextRelease ==
    \/ \E arg \in {None} \cup {Some(ym) : ym \in YearMonths}, now \in YearMonths :
           IssueReleaseTime(arg, now)
    \/ ReleaseTimeUsed

SpecRelease == Init /\ [][NextRelease]_vars

(***************************************************************************)
(* Create steps                                                            *)
(***************************************************************************)
\* the site gains an object matching a step's query: an earlier run or an
\* editor made it
SiteGains(kind) ==
    /\ wp_pc = "idle"
    /\ site[kind] < MaxSame
    /\ site' = [site EXCEPT ![kind] = @ + 1]
    /\ UNCHANGED <<wp_pc, wp_kind, wp_found, wp_key, obj_id, wp_exc, posts, site_at_call>>
    /\ UNCHANGED <<renderVars, slugVars, issueVars, ebookVars, releaseVars, reqVars>>

\* a create step up to the return of get_existing_wp_object
CallCreate(kind, c) ==
    /\ wp_pc = "idle"
    /\ site[kind] <= 1 => c = 0
    /\ LET res == get_existing_wp_object(LookupJson(kind, site[kind]), c)
       IN  /\ wp_pc' = IF res.exc = "none" THEN "looked" ELSE "raised"
           /\ wp_exc' = res.exc
           /\ obj_id' = res.obj_id
    /\ wp_kind' = kind
    /\ wp_found' = site[kind]
    /\ wp_key' = c
    /\ posts' = <<>>
    /\ site_at_call' = site
    /\ UNCHANGED site
    /\ UNCHANGED <<renderVars, slugVars, issueVars, ebookVars, releaseVars, reqVars>>

\* the rest of the step: create the object unless the lookup gave an id
CreateIfMissing(has_file, has_folder) ==
    /\ wp_pc = "looked"
    /\ site[wp_kind] <= MaxSame
    /\ IF NeedsCreate(obj_id)
       THEN IF wp_kind = "cover" /\ ~has_file
            THEN \* FileNotFoundError is caught: no cover
                 /\ wp_pc' = "returned"
                 /\ UNCHANGED <<site, obj_id, posts, wp_exc>>
            ELSE /\ site' = [site EXCEPT ![wp_kind] = @ + 1]
                 /\ obj_id' = Some(<<wp_kind, site[wp_kind] + 1>>)
                 /\ posts' = CreatePosts(wp_kind)
                 /\ IF wp_kind \in {"cover", "avatar"} /\ ~has_folder
                    THEN \* the warning joins rml_folders.keys, not a list
                         /\ wp_pc' = "raised"
                         /\ wp_exc' = "TypeError"
                    ELSE /\ wp_pc' = "returned"
                         /\ UNCHANGED wp_exc
       ELSE /\ wp_pc' = "returned"
            /\ UNCHANGED <<site, obj_id, posts, wp_exc>>
    /\ UNCHANGED <<wp_kind, wp_found, wp_key, site_at_call>>
    /\ UNCHANGED <<renderVars, slugVars, issueVars, ebookVars, releaseVars, reqVars>>

\* the step is over
CreateDone ==
    /\ wp_pc \in {"returned", "raised"}
    /\ wp_pc' = "idle"
    /\ wp_kind' = "none"
    /\ wp_found' = 0
    /\ wp_key' = 0
    /\ obj_id' = None
    /\ wp_exc' = "none"
    /\ posts' = <<>>
    /\ site_at_call' = [k \in CreateSteps |-> 0]
    /\ UNCHANGED site
    /\ UNCHANGED <<renderVars, slugVars, issueVars, ebookVars, releaseVars, reqVars>>

NextCreate ==
    \/ \E kind \in CreateSteps : SiteGains(kind)
    \/ \E kind \in CreateSteps, c \in 0..(MaxSame + 1) : CallCreate(kind, c)
    \/ \E has_file \in BOOLEAN, has_folder \in BOOLEAN : CreateIfMissing(has_file, has_folder)
    \/ CreateDone

SpecCreate == Init /\ [][NextCreate]_vars

(***************************************************************************)
(* Requests                                                                *)
(***************************************************************************)
\* wp_request is called: h = get_wp_headers(headers)
CallWpRequest(req, caller) ==
    /\ req_pc = "idle"
    /\ req_pc' = "sending"
    /\ req_caller' = caller
    /\ request' = req
    /\ h' = current_token
    /\ sent' = <<>>
    /\ req_exc' = "none"
    /\ rml_warned' = FALSE
    /\ UNCHANGED <<current_token, rml_folders>>
    /\ UNCHANGED <<renderVars, slugVars, issueVars, ebookVars, releaseVars, wpVars>>

\* one turn of the loop: the request is sent and the response looked at
SendRequest(response) ==
    /\ req_pc = "sending"
    /\ response.tree # <<>> => req_caller = "setup_rml_folders"
    /\ sent' = Append(sent, [request |-> request, token |-> h, response |-> response])
    /\ IF TokenExpired(response)
       THEN /\ req_pc' = "expired"
            /\ UNCHANGED req_exc
       ELSE IF check_response(response.status_code)
            THEN /\ req_pc' = "raised"
                 /\ req_exc' = "HTTPError"
            ELSE /\ req_pc' = "returned"
                 /\ UNCHANGED req_exc
    /\ UNCHANGED <<req_caller, request, current_token, h, rml_folders, rml_warned>>
    /\ UNCHANGED <<renderVars, slugVars, issueVars, ebookVars, releaseVars, wpVars>>

\* setup_token() and h = get_wp_headers(headers); get_token may fail for good
SetupToken(ok) ==
    /\ req_pc = "expired"
    /\ IF ok
       THEN /\ current_token < MaxTokens
            /\ current_token' = current_token + 1
            /\ h' = current_token + 1
            /\ req_pc' = "sending"
            /\ UNCHANGED req_exc
       ELSE /\ req_pc' = "raised"
            /\ req_exc' = "HTTPError"
            /\ UNCHANGED <<current_token, h>>
    /\ UNCHANGED <<req_caller, request, sent, rml_folders, rml_warned>>
    /\ UNCHANGED <<renderVars, slugVars, issueVars, ebookVars, releaseVars, wpVars>>

\* setup_rml_folders after wp_request has returned r
SetupRmlFolders ==
    /\ req_pc = "returned"
    /\ req_caller = "setup_rml_folders"
    /\ LET r == sent[Len(sent)].response
       IN  IF r.status_code = 200
           THEN /\ rml_folders' = Some(FolderDict(r.tree))
                /\ req_pc' = "done"
                /\ UNCHANGED <<rml_warned, req_exc>>
           ELSE IF r.status_code = 404
                THEN /\ rml_warned' = TRUE
                     /\ rml_folders' = Some({})
                     /\ req_pc' = "done"
                     /\ UNCHANGED req_exc
                ELSE IF check_response(r.status_code)
                     THEN /\ req_pc' = "raised"
                          /\ req_exc' = "HTTPError"
                          /\ UNCHANGED <<rml_folders, rml_warned>>
                     ELSE /\ req_pc' = "done"
                          /\ UNCHANGED <<rml_folders, rml_warned, req_exc>>
    /\ UNCHANGED <<req_caller, request, current_token, h, sent>>
    /\ UNCHANGED <<renderVars, slugVars, issueVars, ebookVars, releaseVars, wpVars>>

\* the caller goes on, or the exception leaves the program
RequestDone ==
    /\ \/ req_pc \in {"raised", "done"}
       \/ req_pc = "returned" /\ req_caller = "wp_request"
    /\ req_pc' = "idle"
    /\ req_caller' = "none"
    /\ request' = [verb |-> "GET", endpoint |-> "media"]
    /\ h' = 1
    /\ sent' = <<>>
    /\ req_exc' = "none"
    /\ rml_warned' = FALSE
    /\ UNCHANGED <<current_token, rml_folders>>
    /\ UNCHANGED <<renderVars, slugVars, issueVars, ebookVars, releaseVars, wpVars>>

NextRequest ==
    \/ \E req \in Requests : CallWpRequest(req, "wp_request")
    \/ CallWpRequest([verb |-> "GET", endpoint |-> "tree"], "setup_rml_folders")
    \/ \E response \in Responses : SendRequest(response)
    \/ \E ok \in BOOLEAN : SetupToken(ok)
    \/ SetupRmlFolders
    \/ RequestDone

SpecRequest == Init /\ [][NextRequest]_vars

(***************************************************************************)
(* Properties                                                              *)
(***************************************************************************)
CountOcc(s, p) == Cardinality({i \in 1..Len(s) : OccursAt(s, p, i)})

\* index of the first line that is non-blank and does not begin with "#",
\* Len + 1 when there is none
FirstContent(ls) ==
    LET C == {k \in 1..Len(ls) : ~IsBlank(ls[k]) /\ ls[k][1] # HASH}
    IN  IF C = {} THEN Len(ls) + 1 ELSE CHOOSE k \in C : \A j \in C : k <= j

InPoem == op \in {"render_poem_for_ebook", "render_poem_for_website"}

LeadingTabs(line) == RunFrom(line, 1, {TAB})

\* C1: after render_story_for_website returns, the paragraph_open,
\* paragraph_close and hr render rules of the shared website renderer are
\* what they were before the call.
C1_RulesAsBeforeCall ==
    (op = "render_story_for_website" /\ pc = "returned") => website_rules = rules_at_call

\* C2: once the poem parser has processed the first line that is non-blank
\* and does not begin with "#", every later line is handled as body, never as
\* a heading: a later line beginning with "#" becomes verse text and the
\* header output stays what it was.
C2_BodyStateIsPermanent ==
    InPoem =>
        LET k == FirstContent(lines)
        IN  /\ Len(steps) >= k => in_content
            /\ \A j \in 1..Len(steps) :
                   j > k => /\ steps[j].kind \in {"verse", "hr", "raise"}
                            /\ (HeadingMatch(lines[j]) > 0 /\ steps[j].kind # "raise")
                                   => /\ steps[j].kind = "verse"
                                      /\ Contains(steps[j].html, <<HASH, "T">>)
            /\ CountOcc(header_html, <<"<", "/", "h">>)
                   = Cardinality({j \in 1..Len(steps) : j < k /\ steps[j].kind = "heading"})

C2_Witness ==
    /\ InPoem /\ pc = "returned"
    /\ \E i, j \in 1..Len(steps) :
           /\ i < j /\ HeadingMatch(lines[i]) > 0 /\ steps[i].kind = "heading"
           /\ FirstContent(lines) < j /\ HeadingMatch(lines[j]) > 0
           /\ steps[j].kind = "verse"

\* the text that closes one body element of the running poem
VerseEnd == IF op = "render_poem_for_ebook" THEN LIT_DIV_CLOSE ELSE Translate(LIT_BR)

\* C3: no poem line is lost: the line that ends HEADER state is rendered as
\* body in the same pass, from it on every line adds exactly one element to
\* the body output, and headings and body elements are in source line order.
C3_NoLineLost ==
    (InPoem /\ pc # "raised") =>
        LET k == FirstContent(lines)
            n == Len(steps)
            body == [j \in 1..(IF n >= k THEN n - k + 1 ELSE 0) |-> steps[k + j - 1].html]
            heads == {j \in 1..n : steps[j].kind = "heading"}
        IN  /\ \A j \in 1..n : j >= k <=> steps[j].kind \in {"verse", "hr"}
            /\ \A j \in 1..n : j >= k =>
                   \/ steps[j].kind = "hr" /\ steps[j].html = LIT_HR_NL
                   \/ /\ steps[j].kind = "verse"
                      /\ CountOcc(steps[j].html, VerseEnd) = 1
                      /\ OccursAt(steps[j].html, VerseEnd,
                                  Len(steps[j].html) - Len(VerseEnd) + 1)
            /\ body_html = Flatten(body)
            /\ CountOcc(body_html, VerseEnd) + CountOcc(body_html, LIT_HR_NL) = Len(body)
            /\ header_html = Flatten([j \in 1..(IF n >= k THEN k - 1 ELSE n) |-> steps[j].html])
            /\ pc = "returned" =>
                   /\ Len(body) = Len(lines) - k + 1
                   /\ result = IF op = "render_poem_for_ebook"
                               THEN header_html \o body_html
                               ELSE LIT_POEM_BLOCK_OPEN \o body_html \o LIT_POEM_BLOCK_CLOSE

C3_Witness ==
    /\ InPoem /\ pc = "returned"
    /\ Len(lines) = 3
    /\ FirstContent(lines) = 2
    /\ steps[1].kind = "heading"
    /\ steps[2].kind = "verse"
    /\ steps[3].kind = "hr"

\* C4: in HEADER state a line beginning with n hash marks becomes an <hn>
\* heading with the rest of the line inline-rendered when 1 <= n <= 6, and
\* raises when n >= 7, after which no HTML is returned.
C4_HeadingDepth ==
    InPoem =>
        \A j \in 1..Len(steps) :
            LET n == HeadingMatch(lines[j])
            IN  (j < FirstContent(lines) /\ n >= 1) =>
                    IF n <= 6
                    THEN /\ steps[j].kind = "heading"
                         /\ steps[j].html =
                                <<"<", "h", Digit(n), ">">> \o MdRenderInline(Drop(lines[j], n))
                                    \o <<"<", "/", "h", Digit(n), ">", NL, NL>>
                    ELSE /\ steps[j].kind = "raise"
                         /\ pc = "raised"
                         /\ result = <<>>

C4_Witness ==
    /\ InPoem /\ pc = "raised"
    /\ Len(steps) = 2
    /\ HeadingMatch(lines[1]) = 6 /\ steps[1].kind = "heading"
    /\ HeadingMatch(lines[2]) = 7 /\ steps[2].kind = "raise"

\* C5: for the ebook target a non-blank body line beginning with k tabs
\* becomes a verse element of class "poem tabk" with the k tabs stripped when
\* 1 <= k <= 4, and raises when k >= 5.
C5_EbookTabDepth ==
    op = "render_poem_for_ebook" =>
        \A j \in 1..Len(steps) :
            LET k == LeadingTabs(lines[j])
            IN  (k >= 1 /\ ~IsBlank(lines[j])) =>
                    IF k <= 4
                    THEN /\ steps[j].kind = "verse"
                         /\ steps[j].html =
                                <<"<", "d", "i", "v", " ", "c", "l", "a", "s", "s", "=", "\"",
                                  "p", "o", "e", "m", " ", "t", "a", "b", Digit(k), "\"", ">">>
                                    \o MdRenderInline(Drop(lines[j], k)) \o LIT_DIV_CLOSE
                         /\ ~Contains(steps[j].html, <<TAB>>)
                    ELSE /\ steps[j].kind = "raise"
                         /\ pc = "raised"

C5_Witness ==
    /\ op = "render_poem_for_ebook" /\ pc = "raised"
    /\ Len(steps) = 2
    /\ LeadingTabs(lines[1]) = 4 /\ steps[1].kind = "verse"
    /\ LeadingTabs(lines[2]) = 5 /\ steps[2].kind = "raise"

\* C6: for the website target a poem with a non-blank body line of five or
\* more leading tabs raises and returns no HTML.
C6_WebsiteTabDepth ==
    op = "render_poem_for_website" =>
        \A j \in 1..Len(steps) :
            (LeadingTabs(lines[j]) >= 5 /\ ~IsBlank(lines[j]))
                => (steps[j].kind = "raise" /\ pc = "raised")

\* C7: the body render_poem_for_website embeds in the block comment has no
\* raw "<", ">" or double quote.
C7_NoRawMarkupInPoemBody ==
    (op = "render_poem_for_website" /\ pc = "returned") =>
        /\ result = LIT_POEM_BLOCK_OPEN \o body_html \o LIT_POEM_BLOCK_CLOSE
        /\ \A i \in 1..Len(body_html) : body_html[i] \notin {"<", ">", "\""}

LIT_HR_BARE == <<"<", "h", "r", ">">>
LIT_HR_NOSPACE == <<"<", "h", "r", "/", ">">>

\* where in s a rule spelled hr is followed, after newlines only, by "<p>"
PairsAt(s, hr) ==
    {i \in 1..Len(s) :
        /\ OccursAt(s, hr, i)
        /\ OccursAt(s, LIT_P_OPEN, i + Len(hr) + RunFrom(s, i + Len(hr), {NL}))}

EbookStoryReturned == op = "render_story_for_ebook" /\ pc = "returned"

\* C8: render_story_for_ebook turns every horizontal rule that is followed,
\* with only newlines between, by a paragraph-open tag into one
\* <p class="noindent"> tag, and leaves every other paragraph and rule alone.
C8_SceneBreakSubstitution ==
    EbookStoryReturned =>
        LET raw == MdRender(DefaultRules, text)
            pairs == Cardinality(PairsAt(raw, LIT_HR))
            bare == Cardinality(PairsAt(raw, LIT_HR_BARE))
        IN  /\ PairsAt(result, LIT_HR) = {}
            /\ CountOcc(result, LIT_NOINDENT) = pairs + bare
            /\ CountOcc(result, LIT_HR) = CountOcc(raw, LIT_HR) - pairs
            /\ CountOcc(result, LIT_P_OPEN) = CountOcc(raw, LIT_P_OPEN) - pairs - bare
            /\ CountOcc(result, LIT_P_CLOSE) = CountOcc(raw, LIT_P_CLOSE)
            /\ pairs + bare = 0 => result = raw

C8_Witness ==
    /\ EbookStoryReturned
    /\ Cardinality(PairsAt(MdRender(DefaultRules, text), LIT_HR)) = 1
    /\ CountOcc(result, LIT_HR) = 1
    /\ CountOcc(result, LIT_NOINDENT) = 1

\* C9 as stated: the substitution applies to a self-closed rule with a space
\* before "/>" (<hr />) and without one (<hr/>).
C9_BothSelfClosedSpellings ==
    EbookStoryReturned =>
        /\ PairsAt(result, LIT_HR) = {}
        /\ PairsAt(result, LIT_HR_NOSPACE) = {}

\* C9 amended: the substitution applies to a rule written <hr /> and to one
\* written <hr>; a rule written <hr/> and followed by a paragraph stays as it
\* is.
C9_SpacedOrBareSpelling ==
    EbookStoryReturned =>
        LET raw == MdRender(DefaultRules, text)
        IN  /\ PairsAt(result, LIT_HR) = {}
            /\ PairsAt(result, LIT_HR_BARE) = {}
            /\ Cardinality(PairsAt(result, LIT_HR_NOSPACE))
                   = Cardinality(PairsAt(raw, LIT_HR_NOSPACE))
            /\ CountOcc(result, LIT_NOINDENT)
                   = Cardinality(PairsAt(raw, LIT_HR)) + Cardinality(PairsAt(raw, LIT_HR_BARE))

C9_Witness ==
    /\ EbookStoryReturned
    /\ PairsAt(MdRender(DefaultRules, text), LIT_HR_BARE) # {}
    /\ Contains(result, LIT_NOINDENT)
    /\ ~Contains(result, LIT_HR_BARE)

\* C10: render_story_for_website removes every line that begins with "#"
\* before rendering, so no such line reaches the renderer and the HTML has
\* no heading element that comes from one.
C10_HeadingLinesRemoved ==
    (op = "render_story_for_website" /\ pc = "returned") =>
        LET kept == SplitLines(remove_header_markdown(text))
        IN  /\ \A j \in 1..Len(kept) : HeadingMatch(kept[j]) = 0
            /\ ~Contains(text, <<"-">>) =>
                   \A n \in 1..6 : ~Contains(result, <<"<", "h", Digit(n), ">">>)

WebsiteStoryReturned == op = "render_story_for_website" /\ pc = "returned"

\* the mark and the space that follow "Copyright " on a copyright line
CopyrightMarks == {<<"(", "c", ")", " ">>, <<"COPYRIGHT_SIGN", " ">>}

\* the lines of ls that read "Copyright (c) <digits>..." or "Copyright © <digits>..."
CopyrightLines(ls) ==
    {k \in 1..Len(ls) :
        \E m \in CopyrightMarks :
            /\ StartsWith(ls[k], LIT_COPYRIGHT \o m)
            /\ RunFrom(ls[k], Len(LIT_COPYRIGHT) + Len(m) + 1, Digits) >= 1}

\* all the digits of the year written on a copyright line
WrittenYear(line) ==
    LET m == CHOOSE x \in CopyrightMarks : StartsWith(line, LIT_COPYRIGHT \o x)
        q == Len(LIT_COPYRIGHT) + Len(m) + 1
    IN  SubSeq(line, q, q + RunFrom(line, q, Digits) - 1)

\* C11: render_story_for_website returns as copyright_year all the digits of
\* the year written after "Copyright (c)" or "Copyright ©" on the first such
\* line, whether or not text follows the year, removes that line from the
\* body, and returns None when there is no such line.
C11_CopyrightYear ==
    WebsiteStoryReturned =>
        LET ls == SplitLines(text)
            C == CopyrightLines(ls)
        IN  IF C = {} THEN copyright_year = None
            ELSE LET k == CHOOSE x \in C : \A y \in C : x <= y
                 IN  /\ copyright_year = Some(WrittenYear(ls[k]))
                     /\ CountOcc(result, LIT_COPYRIGHT) = Cardinality(C) - 1

\* the lines of ls that begin with "First published in "
PublicationLines(ls) == {k \in 1..Len(ls) : StartsWith(ls[k], LIT_FIRST_PUBLISHED)}

\* C12: render_story_for_website removes only the first "First published in
\* <rest>" line and returns <rest> inline-rendered; a later such line stays
\* and is rendered in the body; with no such line the publication is None and
\* the step leaves the text as it is.
C12_FirstPublicationOnly ==
    WebsiteStoryReturned =>
        LET ls == SplitLines(text)
            F == PublicationLines(ls)
            t1 == remove_header_markdown(text)
        IN  IF F = {}
            THEN /\ orig_publication = None
                 /\ ExtractPublication(t1).text = t1
            ELSE LET k == CHOOSE x \in F : \A y \in F : x <= y
                     rest == Drop(ls[k], Len(LIT_FIRST_PUBLISHED))
                 IN  /\ orig_publication = Some(MdRenderInline(RStrip(LStrip(rest))))
                     /\ CountOcc(result, LIT_FIRST_PUBLISHED) = Cardinality(F) - 1
                     /\ \A j \in F : j # k =>
                            Contains(result, LIT_FIRST_PUBLISHED
                                                 \o Drop(ls[j], Len(LIT_FIRST_PUBLISHED)))

C12_Witness ==
    /\ WebsiteStoryReturned
    /\ Cardinality(PublicationLines(SplitLines(text))) = 2
    /\ orig_publication = Some(<<"x">>)
    /\ Contains(result, LIT_FIRST_PUBLISHED \o <<"b">>)

C14_SlugCharacters ==
    slug_pc = "returned" =>
        \A i \in 1..Len(slug) : slug[i] \in LowerCase \cup Digits \cup {"-"}

\* a piece has been scanned and the loop has not gone on
PieceScanned == issue_pc = "scanned"

\* the text of the first heading of the piece that P holds of, if any
FirstHeading(doc, P(_)) ==
    LET content == MdParse(doc, 1)
        hs == {i \in 1..Len(content) : content[i].type = "heading_open" /\ P(content[i])}
    IN  IF hs = {} THEN None
        ELSE Some(content[(CHOOSE i \in hs : \A j \in hs : i <= j) + 1].content)

IsAtx1(t) == t.markup = <<HASH>>
IsAtx2(t) == t.markup = <<HASH, HASH>>
IsLevel1(t) == t.tag = "h1"
IsLevel2(t) == t.tag = "h2"

\* s without a leading "by", in either case, and the spaces after it
StripLeadingBy(s) ==
    IF Len(s) >= 3 /\ s[1] \in {"B", "b"} /\ s[2] \in {"Y", "y"} /\ s[3] = " "
    THEN Drop(s, 2 + RunFrom(s, 3, {" "}))
    ELSE s

\* C15: the author returned for a piece is the text of its first level-2
\* heading with only a leading "by" and the spaces after it removed; a "by "
\* later in the name stays.
C15_OnlyLeadingByRemoved ==
    (PieceScanned /\ found.author.some) =>
        found.author.val = StripLeadingBy(FirstHeading(piece, IsAtx2).val)

\* C16 as stated: the title is the text of the first level-1 heading and the
\* author comes from the first level-2 heading, of whatever syntax.
C16_FirstHeadingsWin ==
    PieceScanned =>
        LET h1 == FirstHeading(piece, IsLevel1)
            h2 == FirstHeading(piece, IsLevel2)
        IN  /\ h1.some => found.title = h1
            /\ h2.some => found.author = Some(SubBy(h2.val, 1))

\* C16: the title is the text of the first heading marked "#" and the author
\* comes from the first heading marked "##", in whatever order the two stand;
\* later headings do not replace a value found, and a heading underlined
\* with "=" or "-" is not looked at.
C16_FirstMarkedHeadingsWin ==
    PieceScanned =>
        LET h1 == FirstHeading(piece, IsAtx1)
            h2 == FirstHeading(piece, IsAtx2)
        IN  /\ found.title = h1
            /\ found.author = (IF h2.some THEN Some(SubBy(h2.val, 1)) ELSE None)

C16_Witness ==
    /\ PieceScanned
    /\ piece = <<Chars("## By A"), Chars("# T"), Chars("# U")>>
    /\ found.title = Some(<<"T">>)
    /\ found.author = Some(<<"A">>)

\* the fields the messages of one entry of errs name
NamedFields(file_errs) ==
    {IF file_errs[k] = "No title found." THEN "title" ELSE "author" : k \in 1..Len(file_errs)}

\* C17: get_titles_and_authors takes every piece before it fails; it raises
\* if and only if some piece lacks a title or an author, the error names
\* exactly those pieces, each with the fields it lacks, and no lists are
\* returned with it.
C17_BatchErrors ==
    issue_pc \in {"returned", "raised"} =>
        LET bad == {i \in 1..Len(lacking) : lacking[i] # {}}
        IN  /\ Len(lacking) = piece_count
            /\ issue_pc = "raised" <=> bad # {}
            /\ issue_pc = "raised" =>
                  /\ {errs[k].fp : k \in 1..Len(errs)} = bad
                  /\ Len(errs) = Cardinality(bad)
                  /\ \A k \in 1..Len(errs) :
                        NamedFields(errs[k].file_errs) = lacking[errs[k].fp]
                  /\ titles = <<>> /\ authors = <<>>
            /\ issue_pc = "returned" =>
                  Len(titles) = piece_count /\ Len(authors) = piece_count

C17_Witness ==
    /\ issue_pc = "raised"
    /\ piece_count = 2
    /\ lacking = <<{"author"}, {}>>
    /\ Len(errs) = 1

\* C18: when rendering inside render_story_for_website raises, the
\* paragraph_open, paragraph_close and hr render rules of the shared website
\* renderer are what they were before the call.
C18_RulesRestoredOnRaise ==
    (op = "render_story_for_website" /\ pc = "raised") => website_rules = rules_at_call

\* the verse element of a blank line of an ebook poem
BlankVerse ==
    <<"<", "d", "i", "v", " ", "c", "l", "a", "s", "s", "=", "\"", "p", "o", "e", "m", "\"", ">",
      "&", "n", "b", "s", "p", ";", "<", "/", "d", "i", "v", ">", NL>>

\* the blank lines after the first content line that the loop has passed
BlankBodyLines ==
    {j \in 1..Len(steps) : j > FirstContent(lines) /\ IsBlank(lines[j])}

\* C19: for the ebook target, every blank line reached in BODY state adds
\* exactly one <div class="poem"> element holding only the non-breaking-space
\* placeholder; none is dropped.
C19_BlankVersePlaceholder ==
    (op = "render_poem_for_ebook" /\ pc # "raised") =>
        /\ \A j \in BlankBodyLines : steps[j] = [kind |-> "verse", html |-> BlankVerse]
        /\ CountOcc(body_html, BlankVerse) = Cardinality(BlankBodyLines)

C19_Witness ==
    /\ op = "render_poem_for_ebook"
    /\ pc = "returned"
    /\ BlankBodyLines = {2}
    /\ Len(lines) = 3

\* the lines without the blank lines that stand before the first content line
WithoutHeaderBlanks(ls) ==
    LET k == FirstContent(ls)
        Keep(j) == j >= k \/ ~IsBlank(ls[j])
        RECURSIVE From(_)
        From(j) == IF j > Len(ls) THEN <<>>
                   ELSE (IF Keep(j) THEN <<ls[j]>> ELSE <<>>) \o From(j + 1)
    IN  From(1)

\* C20: blank lines put before a poem, or between its heading lines before
\* the first content line, do not change what the poem renderer gives: the
\* call ends as it does on the file without them.
C20_HeaderBlanksElided ==
    (InPoem /\ pc \in {"returned", "raised"}) =>
        LET r == render_poem(op, PoemRules, WithoutHeaderBlanks(lines))
        IN  /\ pc = "raised" <=> r.raised
            /\ pc = "returned" =>
                  /\ header_html = r.header_html
                  /\ body_html = r.body_html

C20_Witness ==
    /\ InPoem /\ pc = "returned"
    /\ Len(lines) = 3
    /\ IsBlank(lines[1]) /\ HeadingMatch(lines[2]) > 0
    /\ FirstContent(lines) = 3
    /\ Len(WithoutHeaderBlanks(lines)) = 2
    /\ body_html # <<>>

\* the arrow marker of the website poem body, as it stands after poem_trans
ArrowMarker == <<"-", "\\", "u", "0", "0", "3", "e", " ">>

\* the line-break marker of the website poem body, after poem_trans
BreakMarker == <<"\\", "u", "0", "0", "3", "c", "b", "r", "\\", "u", "0", "0", "3", "e">>

\* C21: for the website target a body line that is not a rule is rendered as
\* one arrow marker per leading tab, then the inline-rendered rest of the line,
\* then one line-break marker; nothing else in the line adds an arrow marker.
C21_ArrowPerLeadingTab ==
    op = "render_poem_for_website" =>
        \A j \in 1..Len(steps) :
            steps[j].kind = "verse" =>
                LET k == LeadingTabs(lines[j])
                IN  /\ steps[j].html =
                           Flatten([i \in 1..k |-> ArrowMarker])
                               \o Translate(MdRenderInline(Drop(lines[j], k)))
                               \o BreakMarker
                    /\ CountOcc(steps[j].html, ArrowMarker) = k

\* the html of the steps of the given kinds, in line order
StepsHtml(kinds) ==
    Flatten([j \in 1..Len(steps) |-> IF steps[j].kind \in kinds THEN steps[j].html ELSE <<>>])

C23_SlugTotal ==
    slug_pc # "idle" =>
        /\ slug_pc = "returned"
        /\ (\A i \in 1..Len(slug_title) :
                TranslateTitle(<<slug_title[i]>>) = <<>>
                    \/ ~KeepsChar(TranslateTitle(<<slug_title[i]>>)[1])) => slug = <<>>
        /\ slug = <<>> \/ slug[Len(slug)] # "-"

C23_Witness ==
    /\ slug_pc = "returned"
    /\ slug_title = <<"'", "POUND">>
    /\ slug = <<>>

\* a reprint whose rendered content has no copyright marker
LacksMarker(p) == p.reprint /\ ~Contains(PieceHtml(p), LIT_COPYRIGHT_MARK)

\* C24: a reprint whose rendered content has no "<p>Copyright (sign)" marker
\* gives a printed warning only: its chapter is appended with the content
\* left without the endmatter wrapping, and the pieces after it are processed.
C24_MissingCopyrightWarnsOnly ==
    /\ Len(ebook_chs) = ebook_before + Len(ebook_pieces)
    /\ ebook_pc = "returned" => Len(ebook_pieces) = ebook_total
    /\ \A k \in 1..Len(ebook_pieces) :
          LET p == ebook_pieces[k]
              ch == ebook_chs[ebook_before + k]
          IN  /\ LacksMarker(p) <=> \E w \in 1..Len(warnings) : warnings[w] = k
              /\ LacksMarker(p) =>
                    /\ ch.content = PieceHtml(p) \o AuthorHtml(p)
                    /\ ~Contains(ch.content, <<"e", "n", "d", "m", "a", "t", "t", "e", "r">>)
              /\ ~LacksMarker(p) =>
                    Contains(ch.content, <<"e", "n", "d", "m", "a", "t", "t", "e", "r">>)

C24_Witness ==
    /\ ebook_pc = "returned"
    /\ Len(ebook_pieces) = 2
    /\ LacksMarker(ebook_pieces[1]) /\ ~ebook_pieces[1].poem
    /\ ebook_pieces[2].reprint /\ ~LacksMarker(ebook_pieces[2])
    /\ warnings = <<1>>
    /\ Len(ebook_chs) = ebook_before + 2

\* the year and month the call is for: the argument, or the month after the
\* current one
ReleaseMonth ==
    IF year_month.some THEN year_month.val
    ELSE IF utcnow[2] = 12 THEN <<utcnow[1] + 1, 1>> ELSE <<utcnow[1], utcnow[2] + 1>>

\* the day of the first Monday of a month
FirstMonday(y, m) == CHOOSE d \in 1..7 : Weekday(y, m, d) = 0

\* C26: issue_release_time returns, in UTC, 11:00 Chicago time of the first
\* Monday of the month, with the offset in effect in Chicago on that Monday;
\* without an argument the month is the one after the current month.
C26_ElevenOnFirstMonday ==
    release_pc = "returned" =>
        LET y == ReleaseMonth[1]
            m == ReleaseMonth[2]
            d == FirstMonday(y, m)
        IN  release_time =
                [year |-> y, month |-> m, day |-> d, hour |-> 11 - ChicagoUtcOffset(y, m, d)]

\* C25: get_existing_wp_object raises a RuntimeError when the lookup returns
\* more than one object, returns the id when exactly one is found and None
\* when none is found.
C25_LookupRaisesOnSeveral ==
    wp_pc \in {"looked", "raised"} /\ posts = <<>> =>
        /\ wp_found > 1 => wp_exc \in {"RuntimeError", "NotImplementedError"}
        /\ wp_found = 1 => wp_exc = "none" /\ obj_id = Some(<<wp_kind, 1>>)
        /\ wp_found = 0 => wp_exc = "none" /\ obj_id = None

\* C27: a create step whose lookup found exactly one object sends no POST,
\* leaves the site as it was and returns the id of that object.
C27_GetOrCreate ==
    wp_pc = "returned" /\ wp_found = 1 =>
        /\ posts = <<>>
        /\ site = site_at_call
        /\ obj_id = Some(<<wp_kind, 1>>)

C27_Witness ==
    /\ wp_pc = "returned"
    /\ wp_found = 1
    /\ wp_kind = "piece"
    /\ obj_id = Some(<<"piece", 1>>)
    /\ posts = <<>>

\* a response with a client or server error status
IsErrorStatus(response) == response.status_code \in 400..599

\* C28: wp_request returns a response only when its status is outside
\* 400-599; after a 403 with the error jwt_auth_invalid_token it gets a new
\* token and sends the same request again with it; every other 4xx or 5xx
\* response raises HTTPError and nothing is sent after it.
C28_RetryOnlyOnExpiredToken ==
    /\ req_pc \in {"returned", "done"} =>
           /\ sent # <<>>
           /\ ~IsErrorStatus(sent[Len(sent)].response)
    /\ \A k \in 1..Len(sent) :
           /\ sent[k].request = request
           /\ k < Len(sent) =>
                  /\ sent[k].response.status_code = 403
                  /\ response_jwt_error(sent[k].response.body) = Some(INVALID_TOKEN)
                  /\ sent[k + 1].token > sent[k].token
           /\ (/\ sent[k].response.status_code = 403
               /\ response_jwt_error(sent[k].response.body) = Some(INVALID_TOKEN)) =>
                  \/ k < Len(sent)
                  \/ req_pc \in {"expired", "raised"}
                  \/ req_pc = "sending" /\ h > sent[k].token
           /\ (/\ IsErrorStatus(sent[k].response)
               /\ ~(/\ sent[k].response.status_code = 403
                    /\ response_jwt_error(sent[k].response.body) = Some(INVALID_TOKEN))) =>
                  /\ k = Len(sent)
                  /\ req_pc = "raised"
                  /\ req_exc = "HTTPError"

\* a request was sent again with a new token and its response returned
C28_Witness ==
    /\ req_pc = "returned"
    /\ Len(sent) = 2
    /\ sent[1].response.body.code = Some(<<"[jwt_auth]", " ", "jwt_", "auth_invalid_token">>)
    /\ sent[2].token = sent[1].token + 1
    /\ sent[2].response.status_code = 200

\* C29: on status 404 setup_rml_folders warns, sets rml_folders to the empty
\* mapping and returns normally; on status 200 it maps each lower-cased
\* folder name to its id.
C29_MissingFoldersTolerated ==
    (/\ req_caller = "setup_rml_folders"
     /\ req_pc \in {"raised", "done"}
     /\ sent # <<>>) =>
        LET r == sent[Len(sent)].response
        IN  /\ r.status_code = 404 =>
                   /\ req_pc = "done"
                   /\ rml_warned
                   /\ rml_folders = Some({})
            /\ r.status_code = 200 =>
                   /\ req_pc = "done"
                   /\ rml_folders = Some(FolderDict(r.tree))

\* a line that does not begin with "#"
NotHeadingLine(line) == Len(line) = 0 \/ line[1] # HASH

\* C30: the heading-removal step of render_story_for_website changes only
\* heading lines: the lines of the raw text that do not begin with "#" are
\* the lines that go on to the renderer, unchanged and in order.
C30_OnlyHeadingLinesRemoved ==
    (op = "render_story_for_website" /\ pc = "returned") =>
        SelectSeq(SplitLines(remove_header_markdown(text)), NotHeadingLine)
            = SelectSeq(SplitLines(text), NotHeadingLine)

====
